---- MODULE Spec2Model ----
(***************************************************************************)
(* Verification model of nTLCanalyzer's numeric core and of the state of   *)
(* one ChromatogramTab.                                                    *)
(*                                                                         *)
(* Numbers.  The program computes in float64.  The model computes in exact *)
(* arithmetic: an integer where the program's value is integral, and a     *)
(* rational <<n, d>> (d > 0) where it is not.  Rounding error of the       *)
(* floating point unit is not modelled.                                    *)
(*                                                                         *)
(* Results.  A Python call either returns or raises.  A result is a record *)
(* [ok |-> TRUE, ...] or [ok |-> FALSE, err |-> <exception class>].        *)
(***************************************************************************)
EXTENDS Integers, Sequences, FiniteSets, TLC

VARIABLES
    results_data,     \* ChromatogramTab.results_data: the one profile of the tab
    peaks,            \* ChromatogramTab.peaks
    integrations,     \* ChromatogramTab.integrations
    mecozzi_fits,     \* ChromatogramTab.mecozzi_fits
    selection_start,  \* ChromatogramTab.selection_start (None or an x value)
    manual_integration_active,
    last,             \* the last handler of the tab that ran, and how it ended
    call,             \* the last call of a function of the numeric core
    app,              \* TufteChromatogramApp: its tabs and its notebook
    image_tab         \* ImageTab: its image, profile lines and active line

vars == << results_data, peaks, integrations, mecozzi_fits, selection_start,
           manual_integration_active, last, call, app, image_tab >>

\* the variables of one ChromatogramTab
chromvars == << results_data, peaks, integrations, mecozzi_fits, selection_start,
                manual_integration_active, last >>

\* everything but the call of the numeric core
tabvars == << chromvars, app, image_tab >>

None == "None"

(***************************************************************************)
(* Arithmetic helpers                                                      *)
(***************************************************************************)
Abs(a) == IF a < 0 THEN -a ELSE a

Min2(a, b) == IF a <= b THEN a ELSE b

Max2(a, b) == IF a >= b THEN a ELSE b

Range(s) == { s[i] : i \in 1..Len(s) }

RECURSIVE SumFromTo(_, _, _)
SumFromTo(s, lo, hi) ==
    IF lo > hi THEN 0
    ELSE IF lo = hi THEN s[lo]
    ELSE LET mid == (lo + hi) \div 2
         IN  SumFromTo(s, lo, mid) + SumFromTo(s, mid + 1, hi)

SeqSum(s) == SumFromTo(s, 1, Len(s))

\* np.max and np.min of a non-empty array
SeqMax(s) == CHOOSE v \in Range(s) : \A w \in Range(s) : w <= v

SeqMin(s) == CHOOSE v \in Range(s) : \A w \in Range(s) : v <= w

\* the Python slice s[a:b] for 0 <= a and 0 <= b (indices 0-based, b excluded)
Slice(s, a, b) == SubSeq(s, a + 1, Min2(b, Len(s)))

\* Python's round() of the float n/d: to the nearest integer, a tie to the even one
RoundHalfEven(n, d) ==
    LET f == n \div d
        r == 2 * (n - f * d)
    IN  IF r < d THEN f
        ELSE IF r > d THEN f + 1
        ELSE IF f % 2 = 0 THEN f ELSE f + 1

(***************************************************************************)
(* image_processing.py                                                     *)
(*                                                                         *)
(* An image is [rows, cols, channels, px]: px[<<y, x>>] is the pixel at    *)
(* row y, column x (0-based): an integer when channels = 0 (a 2-D array),  *)
(* a tuple of channel values when channels > 0 (a 3-D array).              *)
(* A path is a sequence of points <<x, y>> with integer coordinates whose  *)
(* segments are parallel to an image axis: every segment length and every  *)
(* unit normal of the sampled band is then exact.                          *)
(***************************************************************************)
MinSamples == 500

MaxSamples == 1000

\* np.sqrt(dx*dx + dy*dy) for dx = a/D, dy = c/D, as a numerator over D
Hypot(a, c) ==
    IF c = 0 THEN Abs(a)
    ELSE IF a = 0 THEN Abs(c)
    ELSE CHOOSE r \in 0..(Abs(a) + Abs(c)) : r * r = a * a + c * c

\* segment_lengths = np.sqrt(np.sum(np.diff(points)**2, axis=1))
segment_lengths(points) ==
    [k \in 1..(Len(points) - 1) |->
        Hypot(points[k + 1][1] - points[k][1], points[k + 1][2] - points[k][2])]

\* np.cumsum(s)[lo..hi] given the sum `base` of s[1..lo-1]
RECURSIVE CumSum(_, _, _, _)
CumSum(s, lo, hi, base) ==
    IF lo > hi THEN << >>
    ELSE IF lo = hi THEN << base + s[lo] >>
    ELSE LET mid == (lo + hi) \div 2
             left == CumSum(s, lo, mid, base)
         IN  left \o CumSum(s, mid + 1, hi, left[Len(left)])

\* cumulative_dist = np.concatenate(([0], np.cumsum(segment_lengths)))
cumulative_dist(points) ==
    LET sl == segment_lengths(points)
    IN  << 0 >> \o CumSum(sl, 1, Len(sl), 0)

\* num_samples = min(1000, max(500, int(total_dist / 2)))
num_samples(total_dist) == Min2(MaxSamples, Max2(MinSamples, total_dist \div 2))

\* the last index j in lo..hi of the non-decreasing xp with xp[j] * D <= tn
\* (xp[lo] * D <= tn is given): the binary search of np.interp
RECURSIVE SearchLast(_, _, _, _, _)
SearchLast(xp, D, tn, lo, hi) ==
    IF lo = hi THEN lo
    ELSE LET mid == (lo + hi + 1) \div 2
         IN  IF xp[mid] * D <= tn THEN SearchLast(xp, D, tn, mid, hi)
             ELSE SearchLast(xp, D, tn, lo, mid - 1)

\* np.interp(t, xp, fp) for t = tn/D inside [xp[1], xp[Len(xp)]], as a numerator
\* over D: fp[j] + slope * (t - xp[j]) for the last j with xp[j] <= t.
InterpAt(tn, D, xp, fp) ==
    LET j == SearchLast(xp, D, tn, 1, Len(xp))
    IN  IF j = Len(xp) \/ xp[j] * D = tn
        THEN fp[j] * D
        ELSE fp[j] * D + ((fp[j + 1] - fp[j]) * (tn - xp[j] * D)) \div (xp[j + 1] - xp[j])

\* the offsets of range(-band_width//2, band_width//2 + 1)
BandOffsets(band_width) == ((-band_width) \div 2)..(band_width \div 2)

\* the mean of the channels of one pixel, a rational
PixelValue(image, x, y) ==
    IF image.channels = 0
    THEN << image.px[<<y, x>>], 1 >>
    ELSE << SeqSum(image.px[<<y, x>>]), image.channels >>

InBounds(image, x, y) == 0 <= x /\ x < image.cols /\ 0 <= y /\ y < image.rows

\* One iteration of the loop of sample_band over the pair (p1, p2), the points
\* given as numerators over D: << >> when the pair has zero separation (nothing
\* is appended), else the one value appended: np.mean(values), or 0.
PairIntensity(image, p1, p2, D, band_width) ==
    LET dx == p2[1] - p1[1]
        dy == p2[2] - p1[2]
        length == Hypot(dx, dy)
        \* x_center + offset * nx = p1x/D + offset * (-dy/length)
        xs(o) == RoundHalfEven(p1[1] * length - o * dy * D, D * length)
        ys(o) == RoundHalfEven(p1[2] * length + o * dx * D, D * length)
        kept == { o \in BandOffsets(band_width) : InBounds(image, xs(o), ys(o)) }
        den == IF image.channels = 0 THEN 1 ELSE image.channels
        total == LET RECURSIVE Acc(_)
                     Acc(S) == IF S = {} THEN 0
                               ELSE LET o == CHOOSE e \in S : TRUE
                                        v == PixelValue(image, xs(o), ys(o))
                                    IN  v[1] + Acc(S \ {o})
                 IN  Acc(kept)
    IN  IF length > 0
        THEN IF kept # {} THEN << << total, den * Cardinality(kept) >> >>
             ELSE << << 0, 1 >> >>
        ELSE << >>

\* the list `intensities` of sample_band after the iterations lo..hi of its loop
RECURSIVE PairIntensities(_, _, _, _, _, _)
PairIntensities(image, points, D, band_width, lo, hi) ==
    IF lo > hi THEN << >>
    ELSE IF lo = hi
    THEN PairIntensity(image, points[lo], points[lo + 1], D, band_width)
    ELSE LET mid == (lo + hi) \div 2
         IN  PairIntensities(image, points, D, band_width, lo, mid)
             \o PairIntensities(image, points, D, band_width, mid + 1, hi)

\* np.interp(np.linspace(0, M - 1, n), np.arange(M), ys)[j], j 0-based
ResampleAt(ys, n, j) ==
    LET M == Len(ys)
        pos == j * (M - 1)
        k == IF n = 1 THEN 0 ELSE pos \div (n - 1)
        r == IF n = 1 THEN 0 ELSE pos % (n - 1)
    IN  IF k >= M - 1 \/ r = 0 THEN ys[k + 1]
        ELSE << ys[k + 1][1] * ys[k + 2][2] * (n - 1 - r) + ys[k + 2][1] * ys[k + 1][2] * r,
                ys[k + 1][2] * ys[k + 2][2] * (n - 1) >>

\* sample_band(image, points, band_width), the points as numerators over D
sample_band(image, points, D, band_width) ==
    LET ys == PairIntensities(image, points, D, band_width, 1, Len(points) - 1)
    IN  IF ys # << >>
        THEN [j \in 1..Len(points) |-> ResampleAt(ys, Len(points), j - 1)]
        ELSE << >>

\* extract_profile(image, points, band_width).  distances and the coordinates of
\* the resampled points are numerators over dden = num_samples - 1.
extract_profile(image, points, band_width) ==
    IF Len(points) = 0
    THEN [ok |-> FALSE, err |-> "AxisError"]     \* np.sum(..., axis=1) of a 1-D array
    ELSE
    LET cd == cumulative_dist(points)
        total_dist == cd[Len(cd)]
        n == num_samples(total_dist)
        D == n - 1
        even(i) == (i - 1) * total_dist          \* np.linspace(0, total_dist, n)[i-1] * D
        xs == [k \in 1..Len(points) |-> points[k][1]]
        ys == [k \in 1..Len(points) |-> points[k][2]]
        interp_points == [i \in 1..n |->
                            << InterpAt(even(i), D, cd, xs), InterpAt(even(i), D, cd, ys) >>]
    IN  [ok |-> TRUE,
         dden |-> D,
         distances |-> [i \in 1..n |-> even(i)],
         intensities |-> sample_band(image, interp_points, D, band_width)]

(***************************************************************************)
(* peak_analysis.py                                                        *)
(*                                                                         *)
(* A trace is a sequence of integers; data[i + 1] is the sample that the   *)
(* program calls data[i].  Indices in results are the program's (0-based). *)
(* scipy.signal.find_peaks is modelled step by step: local maxima, then    *)
(* the height, distance, prominence and width conditions in that order.    *)
(***************************************************************************)
At(x, i) == x[i + 1]

\* _local_maxima_1d: the midpoints of the plateaus that rise before and fall after
RECURSIVE LocalMaximaFrom(_, _)
LocalMaximaFrom(x, i) ==
    LET i_max == Len(x) - 1
        RECURSIVE Ahead(_)
        Ahead(a) == IF a < i_max /\ At(x, a) = At(x, i) THEN Ahead(a + 1) ELSE a
        i_ahead == Ahead(i + 1)
    IN  IF ~(i < i_max) THEN << >>
        ELSE IF At(x, i - 1) < At(x, i) /\ At(x, i_ahead) < At(x, i)
        THEN << (i + (i_ahead - 1)) \div 2 >> \o LocalMaximaFrom(x, i_ahead + 1)
        ELSE LocalMaximaFrom(x, i + 1)

local_maxima_1d(x) == LocalMaximaFrom(x, 1)

\* peaks[keep]
KeepIdx(pk, keep) == SelectSeq(pk, LAMBDA q : q \in keep)

\* _select_by_peak_distance: from the highest peak down (np.argsort is stable on
\* these short arrays, so of equal peaks the later one comes first), a peak still
\* kept removes every other peak closer than distance.
RECURSIVE SelectByDistance(_, _, _, _)
SelectByDistance(x, todo, keep, distance) ==
    IF todo = {} THEN keep
    ELSE LET j == CHOOSE q \in todo : \A r \in todo :
                      \/ At(x, r) < At(x, q)
                      \/ (At(x, r) = At(x, q) /\ r <= q)
         IN  IF j \notin keep
             THEN SelectByDistance(x, todo \ {j}, keep, distance)
             ELSE SelectByDistance(x, todo \ {j},
                      { k \in keep : k = j \/ Abs(k - j) >= distance }, distance)

\* a selection that ignores the distance
select_by_peak_distance_keep_all(x, pk, distance) == pk

select_by_peak_distance(x, pk, distance) ==
    LET S == { pk[m] : m \in 1..Len(pk) }
    IN  KeepIdx(pk, SelectByDistance(x, S, S, distance))

\* _peak_prominences (wlen = None): the peak's height above the higher of the
\* lowest points reached walking left and right while the signal stays <= the peak
RECURSIVE WalkMin(_, _, _, _, _)
WalkMin(x, peak, i, step, lowest) ==
    IF 0 <= i /\ i <= Len(x) - 1 /\ At(x, i) <= At(x, peak)
    THEN WalkMin(x, peak, i + step, step,
                 IF At(x, i) < At(x, lowest) THEN i ELSE lowest)
    ELSE lowest

left_base(x, peak) == WalkMin(x, peak, peak, -1, peak)

right_base(x, peak) == WalkMin(x, peak, peak, 1, peak)

peak_prominence(x, peak) ==
    At(x, peak) - Max2(At(x, left_base(x, peak)), At(x, right_base(x, peak)))

\* _peak_widths at rel_height = 0.5.  The evaluation height is h2/2 with
\* h2 = 2*x[peak] - prominence.  Each intersection is i (+ or -) a fraction.
RECURSIVE WalkAbove(_, _, _, _, _)
WalkAbove(x, h2, i, step, stop) ==
    IF i # stop /\ h2 < 2 * At(x, i) THEN WalkAbove(x, h2, i + step, step, stop) ELSE i

\* whether right_ip - left_ip >= width
WidthAtLeast(x, peak, width) ==
    LET h2 == 2 * At(x, peak) - peak_prominence(x, peak)
        il == WalkAbove(x, h2, peak, -1, left_base(x, peak))
        ir == WalkAbove(x, h2, peak, 1, right_base(x, peak))
        \* left_ip = il + (h - x[il]) / (x[il+1] - x[il]) when x[il] < h
        ln == IF 2 * At(x, il) < h2 THEN h2 - 2 * At(x, il) ELSE 0
        ld == IF 2 * At(x, il) < h2 THEN 2 * (At(x, il + 1) - At(x, il)) ELSE 1
        \* right_ip = ir - (h - x[ir]) / (x[ir-1] - x[ir]) when x[ir] < h
        rn == IF 2 * At(x, ir) < h2 THEN h2 - 2 * At(x, ir) ELSE 0
        rd == IF 2 * At(x, ir) < h2 THEN 2 * (At(x, ir - 1) - At(x, ir)) ELSE 1
    IN  (ir - il - width) * ld * rd >= rn * ld + ln * rd

\* scipy.signal.find_peaks(x, height, distance, prominence, width), the height a
\* rational hn/hd and the prominence a rational pn/pd
find_peaks(x, hn, hd, distance, pn, pd, width) ==
    IF distance < 1 THEN [ok |-> FALSE, err |-> "ValueError"]
    ELSE LET all == local_maxima_1d(x)
             byHeight == SelectSeq(all, LAMBDA q : At(x, q) * hd >= hn)
             byDistance == select_by_peak_distance(x, byHeight, distance)
             byProminence ==
                 SelectSeq(byDistance, LAMBDA q : peak_prominence(x, q) * pd >= pn)
             byWidth == SelectSeq(byProminence, LAMBDA q : WidthAtLeast(x, q, width))
         IN  [ok |-> TRUE, peaks |-> byWidth]

\* a test that never finds the data flat
FlatData_never(data) == FALSE

\* data_range == 0, the test for flat data
FlatData(data) == SeqMax(data) - SeqMin(data) = 0

\* detect_peaks(data, height_threshold, distance, prominence, width), the
\* height_threshold a rational << n, d >>.  np.array([]) is an array of float64,
\* the result of find_peaks an array of int64.
detect_peaks(data, height_threshold, distance, prominence, width) ==
    IF Len(data) = 0 THEN [ok |-> TRUE, peaks |-> << >>, dtype |-> "float64"]
    ELSE LET data_range == SeqMax(data) - SeqMin(data)
             \* abs_height = height_threshold * data_range + min, over the denominator d
             abs_n == height_threshold[1] * data_range + SeqMin(data) * height_threshold[2]
             \* adaptive_prominence = prominence * (data_range / 100)
             prom_n == prominence * data_range
             found == find_peaks(data, abs_n, height_threshold[2], distance,
                                 prom_n, 100, width)
         IN  IF FlatData(data) THEN [ok |-> TRUE, peaks |-> << >>, dtype |-> "float64"]
             ELSE IF found.ok
             THEN [ok |-> TRUE, peaks |-> found.peaks, dtype |-> "int64"]
             ELSE found

(***************************************************************************)
(* The filters of peak_analysis.py                                         *)
(*                                                                         *)
(* A filtered trace is a sequence of numerators over a denominator.  The   *)
(* Savitzky-Golay filter is the least-squares projection of each window on *)
(* the polynomials of degree <= poly_order (mode 'interp': the first and   *)
(* last window also give the edge samples).  It is computed for the cases  *)
(* where the projection has a closed form: a constant trace and            *)
(* poly_order = window - 1 (both reproduced), and window 5 with order 3,   *)
(* where I - H = d d^T / 70 for the fourth difference d = (1,-4,6,-4,1).   *)
(* Its results are numerators over 70.                                     *)
(***************************************************************************)
FourthDiff == << 1, -4, 6, -4, 1 >>

IsConstant(x) == \A i \in 1..Len(x) : x[i] = x[1]

\* scipy.signal.savgol_filter(data, window_size, poly_order), len(data) > window_size
savgol_filter(x, window_size, poly_order) ==
    LET n == Len(x)
        \* the window (1-based first index) whose fit gives sample i
        first(i) == IF i <= 2 THEN 1 ELSE IF i >= n - 1 THEN n - 4 ELSE i - 2
        delta(f) == SeqSum([k \in 1..5 |-> FourthDiff[k] * x[f + k - 1]])
    IN  IF poly_order >= window_size
        THEN [ok |-> FALSE, err |-> "ValueError"]
        ELSE IF poly_order = window_size - 1 \/ IsConstant(x)
        THEN [ok |-> TRUE, y |-> [i \in 1..n |-> 70 * x[i]]]
        ELSE [ok |-> TRUE,
              y |-> [i \in 1..n |->
                        70 * x[i] - FourthDiff[i - first(i) + 1] * delta(first(i))]]

\* apply_savitzky_golay(data, window_size, poly_order): numerators y over scale
apply_savitzky_golay(data, window_size, poly_order) ==
    LET w == IF window_size % 2 = 0 THEN window_size + 1 ELSE window_size
        sg == savgol_filter(data, w, poly_order)
    IN  IF Len(data) > w
        THEN IF sg.ok THEN [ok |-> TRUE, y |-> sg.y, scale |-> 70] ELSE sg
        ELSE [ok |-> TRUE, y |-> data, scale |-> 1]

\* The kernel of gaussian_filter1d for sigma = 1: radius int(4 * sigma + 0.5) = 4,
\* weights exp(-k*k/2) for k = 0..4 in hundredths, normalised by their sum.
GaussKernel == << 100, 61, 14, 1, 0 >>

GaussSum == GaussKernel[1] + 2 * SeqSum(Tail(GaussKernel))

\* mode 'reflect': the sample (0-based) that stands for position i of a trace of n
Reflect(i, n) ==
    LET m == i % (2 * n)
    IN  IF m < n THEN m ELSE 2 * n - 1 - m

\* apply_gaussian_smooth(data, sigma) for sigma in {0, 1}: numerators y over scale
apply_gaussian_smooth(data, sigma) ==
    LET n == Len(data)
        radius == Len(GaussKernel) - 1
    IN  IF sigma > 0
        THEN [y |-> [i \in 1..n |->
                        SeqSum([k \in 1..(2 * radius + 1) |->
                            GaussKernel[Abs(k - radius - 1) + 1]
                                * At(data, Reflect(i - 1 + k - radius - 1, n))])],
              scale |-> GaussSum]
        ELSE [y |-> data, scale |-> 1]

(***************************************************************************)
(* utils.py, integration.py                                                *)
(*                                                                         *)
(* An area is a rational << n, d >>.                                       *)
(***************************************************************************)
\* an integration that counts the values below zero as zero
calculate_area_clipped(yn, yd, x_values) ==
    IF Len(yn) < 2 THEN << 0, 2 * yd >>
    ELSE << SeqSum([i \in 1..(Len(yn) - 1) |->
                       (x_values[i + 1] - x_values[i])
                           * (Max2(yn[i], 0) + Max2(yn[i + 1], 0))]),
            2 * yd >>

\* calculate_area(y_values, x_values) = scipy.integrate.trapezoid(y, x) for
\* y = yn/yd: the sum of (x[i+1] - x[i]) * (y[i] + y[i+1]) / 2
calculate_area(yn, yd, x_values) ==
    IF Len(yn) < 2 THEN << 0, 2 * yd >>
    ELSE << SeqSum([i \in 1..(Len(yn) - 1) |->
                       (x_values[i + 1] - x_values[i]) * (yn[i] + yn[i + 1])]),
            2 * yd >>

\* np.argmin(np.abs(x_data - x)): the first index of the least distance
ArgminAbs(x_data, x) ==
    LET least == SeqMin([i \in 1..Len(x_data) |-> Abs(x_data[i] - x)])
    IN  (CHOOSE i \in 1..Len(x_data) :
            /\ Abs(x_data[i] - x) = least
            /\ \A k \in 1..(i - 1) : Abs(x_data[k] - x) # least) - 1

\* an area measured from zero, no baseline subtracted
AreaAboveBaseline_from_zero(x_range, y_range, y0, y1) ==
    calculate_area(y_range, 1, x_range)

\* calculate_area(y_range - np.linspace(y0, y1, len(y_range)), x_range), with
\* np.linspace(y0, y1, n)[k] = y0 + k * (y1 - y0) / (n - 1)
AreaAboveBaseline(x_range, y_range, y0, y1) ==
    LET n == Len(y_range)
        d == IF n > 1 THEN n - 1 ELSE 1
    IN  calculate_area([k \in 1..n |-> y_range[k] * d - (y0 * d + (k - 1) * (y1 - y0))],
                       d, x_range)

\* the two indices as they come, not swapped
OrderedPair_as_given(i1, i2) == << i1, i2 >>

\* if start_idx > end_idx: start_idx, end_idx = end_idx, start_idx
OrderedPair(i1, i2) == IF i1 > i2 THEN << i2, i1 >> ELSE << i1, i2 >>

\* manual_integration(x_data, y_data, start_x, end_x)
manual_integration(x_data, y_data, start_x, end_x) ==
    IF Len(x_data) = 0
    THEN [ok |-> FALSE, err |-> "ValueError"]         \* np.argmin of an empty array
    ELSE LET ordered == OrderedPair(ArgminAbs(x_data, start_x),
                                    ArgminAbs(x_data, end_x))
             start_idx == ordered[1]
             end_idx == ordered[2]
         IN  [ok |-> TRUE, start_idx |-> start_idx, end_idx |-> end_idx,
              area |-> AreaAboveBaseline(Slice(x_data, start_idx, end_idx + 1),
                                         Slice(y_data, start_idx, end_idx + 1),
                                         At(y_data, start_idx), At(y_data, end_idx))]

\* calculate_integration_area(distances, intensities, start_idx, end_idx): the
\* slices [start_idx:end_idx] end before the sample end_idx, the baseline ends
\* at intensities[end_idx]
calculate_integration_area(distances, intensities, start_idx, end_idx) ==
    AreaAboveBaseline(Slice(distances, start_idx, end_idx),
                      Slice(intensities, start_idx, end_idx),
                      At(intensities, start_idx), At(intensities, end_idx))

\* The bounds of an automatic integration.  width_percent is a number of
\* percent, sensitivity a rational << n, d >>, so that
\*   y > peak_height * (1 - width_percent/100.0)  iff  100 y > peak_height (100 - width_percent)
\*   abs(y - y') < sensitivity * peak_height      iff  d abs(y - y') < n peak_height
Padding == 3

\* while left_idx > 0 (right_idx < len - 1) and y_data[idx] > threshold: idx -= 1 (+= 1)
RECURSIVE WhileAboveThreshold(_, _, _, _, _)
WhileAboveThreshold(y_data, idx, step, peak_height, width_percent) ==
    IF /\ (IF step < 0 THEN idx > 0 ELSE idx < Len(y_data) - 1)
       /\ 100 * At(y_data, idx) > peak_height * (100 - width_percent)
    THEN WhileAboveThreshold(y_data, idx + step, step, peak_height, width_percent)
    ELSE idx

\* while left_idx > 0 (right_idx < len - 1) and
\* abs(y_data[idx] - y_data[idx -+ 1]) < sensitivity * peak_height: idx -= 1 (+= 1)
RECURSIVE WhileFlat(_, _, _, _, _)
WhileFlat(y_data, idx, step, peak_height, sensitivity) ==
    IF /\ (IF step < 0 THEN idx > 0 ELSE idx < Len(y_data) - 1)
       /\ sensitivity[2] * Abs(At(y_data, idx) - At(y_data, idx + step))
              < sensitivity[1] * peak_height
    THEN WhileFlat(y_data, idx + step, step, peak_height, sensitivity)
    ELSE idx

\* bounds moved outward without a limit
PadBounds_unclamped(n, left_idx, right_idx) ==
    << left_idx - Padding, right_idx + Padding >>

\* left_idx = max(0, left_idx - 3); right_idx = min(len(y_data) - 1, right_idx + 3)
PadBounds(n, left_idx, right_idx) ==
    << Max2(0, left_idx - Padding), Min2(n - 1, right_idx + Padding) >>

\* integration.find_integration_bounds(x_data, y_data, peak_idx, width_percent,
\* sensitivity) for 0 <= peak_idx < len(y_data)
find_integration_bounds(x_data, y_data, peak_idx, width_percent, sensitivity) ==
    LET peak_height == At(y_data, peak_idx)
        left_idx == WhileFlat(y_data,
                        WhileAboveThreshold(y_data, peak_idx, -1, peak_height,
                                            width_percent),
                        -1, peak_height, sensitivity)
        right_idx == WhileFlat(y_data,
                         WhileAboveThreshold(y_data, peak_idx, 1, peak_height,
                                             width_percent),
                         1, peak_height, sensitivity)
    IN  PadBounds(Len(y_data), left_idx, right_idx)

\* a list that holds the region of the first peak only
auto_integrate_peaks_first(distances, intensities, peak_indices, width_percent, sensitivity) ==
    IF Len(peak_indices) = 0 THEN << >>
    ELSE << find_integration_bounds(distances, intensities, peak_indices[1],
                                    width_percent, sensitivity) >>

\* peak_analysis.auto_integrate_peaks(distances, intensities, peak_indices,
\* width_percent, sensitivity): the loop body, once for every peak, appended in
\* the order of peak_indices
auto_integrate_peaks(distances, intensities, peak_indices, width_percent, sensitivity) ==
    [k \in 1..Len(peak_indices) |->
        LET peak_idx == peak_indices[k]
            peak_height == At(intensities, peak_idx)
            left_idx == WhileFlat(intensities,
                            WhileAboveThreshold(intensities, peak_idx, -1,
                                                peak_height, width_percent),
                            -1, peak_height, sensitivity)
            right_idx == WhileFlat(intensities,
                             WhileAboveThreshold(intensities, peak_idx, 1,
                                                 peak_height, width_percent),
                             1, peak_height, sensitivity)
        IN  << Max2(0, left_idx - Padding),
               Min2(Len(intensities) - 1, right_idx + Padding) >>]

(***************************************************************************)
(* fitting.py                                                              *)
(*                                                                         *)
(* scipy.optimize.curve_fit is modelled by what decides its outcome: the   *)
(* errors it raises before it iterates (bounds that are not lb < ub, a     *)
(* start outside the bounds) are computed; whether the iteration then      *)
(* converges is the input `converges` of the model.  The fitted parameters *)
(* are represented by the start p0, and the area under the fitted curve by *)
(* the x-range it is integrated over.                                      *)
(***************************************************************************)
\* mecozzi_f(x, height, center, hwhm, asym) at one x, for asym = an/ad: the
\* argument of np.log is 1 + 2*asym*(x-center)/(hwhm*(4-asym**2)) = (M + N) / M
\* for M = hwhm * (4 ad^2 - an^2) and N = 2 an ad (x - center).  The value is
\* what the logarithm is taken of: a positive number, zero, a negative number,
\* or the outcome of a division by zero.
mecozzi_f(x, center, hwhm, asym) ==
    LET M == hwhm * (4 * asym[2] * asym[2] - asym[1] * asym[1])
        N == 2 * asym[1] * asym[2] * (x - center)
    IN  IF M = 0 THEN "division by zero"
        ELSE IF (M + N) * M > 0 THEN "positive"
        ELSE IF M + N = 0 THEN "zero"
        ELSE "negative"

\* mecozzi_a(x, height, center, hwhm, asym) for an array x: mecozzi_f is
\* evaluated at the samples with x >= center - hwhm*(4-asym**2)/(2*asym), the
\* result is 0 at the others
mecozzi_a(x, center, hwhm, asym) ==
    LET valid(i) == 2 * asym[1] * asym[2] * (x[i] - center)
                       >= -(hwhm * (4 * asym[2] * asym[2] - asym[1] * asym[1]))
    IN  [i \in 1..Len(x) |->
            IF valid(i)
            THEN [evaluated |-> TRUE, log_of |-> mecozzi_f(x[i], center, hwhm, asym)]
            ELSE [evaluated |-> FALSE, log_of |-> None]]

FitWindow == 50

InitialHwhm == 20

MaxHwhm == 100

\* fit_mecozzi_to_peak(x_data, y_data, peak_idx); peak_idx may be negative
\* (Python counts from the end) or out of range
fit_mecozzi_to_peak(x_data, y_data, peak_idx, converges) ==
    LET n == Len(y_data)
        start_idx == Max2(0, peak_idx - FitWindow)
        end_idx == Min2(Len(x_data) - 1, peak_idx + FitWindow)
        \* x_data[start_idx:end_idx]: a negative end counts from the end
        stop == IF end_idx < 0 THEN Max2(0, Len(x_data) + end_idx) ELSE end_idx
        x_segment == Slice(x_data, start_idx, stop)
        y_segment == Slice(y_data, start_idx, stop)
        pos == IF peak_idx < 0 THEN n + peak_idx ELSE peak_idx
        height == At(y_data, pos) - SeqMin(y_segment)
        center == At(x_data, pos)
        lb_ok == /\ 0 < 2 * height
                 /\ x_segment[1] < x_segment[Len(x_segment)]
                 /\ 0 < MaxHwhm
        p0_ok == /\ 0 <= height /\ height <= 2 * height
                 /\ x_segment[1] <= center /\ center <= x_segment[Len(x_segment)]
                 /\ 0 <= InitialHwhm /\ InitialHwhm <= MaxHwhm
    IN  IF ~(-n <= peak_idx /\ peak_idx <= n - 1)
        THEN [ok |-> FALSE, err |-> "IndexError", at |-> "y_data[peak_idx]"]
        ELSE IF Len(y_segment) = 0
        THEN [ok |-> FALSE, err |-> "ValueError", at |-> "np.min(y_segment)"]
        ELSE IF ~lb_ok \/ ~p0_ok \/ ~converges
        THEN [ok |-> FALSE, err |-> "ValueError", at |-> "curve_fit"]
        ELSE [ok |-> TRUE,
              fit |-> [peak_idx |-> peak_idx,
                       params |-> << height, center, InitialHwhm, 1 >>,
                       x_fit |-> << x_segment[1], x_segment[Len(x_segment)] >>]]

(***************************************************************************)
(* chromatogram_tab.py: the state of one ChromatogramTab                   *)
(*                                                                         *)
(* results_data holds the tab's one profile: distances as numerators over  *)
(* xden, raw_intensities over rden, filtered over fden.  peaks is the dict *)
(* self.peaks: absent, or the stored index array with its dtype.           *)
(* integrations is the list of stored regions << start_idx, end_idx >>.    *)
(* mecozzi_fits is the dict self.mecozzi_fits: absent, or the list of      *)
(* fits.  last is the handler that ran last and how it ended: "ok" (it ran *)
(* to its end), "returned" (an early return), "error shown" (it caught an  *)
(* exception, showed it in a dialog and returned) or "raised" (an          *)
(* exception left it); the text it gave to app.set_status, if it gave one; *)
(* the peak indices of the lines it printed; and, for apply_filters, what  *)
(* the tab held before it ran.                                             *)
(***************************************************************************)
NoData ==
    [present |-> FALSE, distances |-> << >>, xden |-> 1,
     raw_intensities |-> << >>, rden |-> 1, filtered |-> << >>, fden |-> 1]

NoPeaks == [present |-> FALSE, dtype |-> "int64", idx |-> << >>]

NoFits == [present |-> FALSE, fits |-> << >>]

NoSelection == << >>

Status(msg, n, d) == [msg |-> msg, arg |-> << n, d >>]

NoStatus == Status("", 0, 1)

Ended(op, outcome, err, status) ==
    [op |-> op, outcome |-> outcome, err |-> err, status |-> status,
     printed |-> << >>, before |-> << >>, drawn |-> << >>]

\* how a handler ends whose last steps are update_chromatogram_display() and
\* app.set_status(status)
Shown(op, shown, status) ==
    IF shown = None THEN Ended(op, "ok", None, status)
    ELSE Ended(op, "raised", shown, NoStatus)

RECURSIVE Gcd(_, _)
Gcd(a, b) == IF b = 0 THEN a ELSE Gcd(b, a % b)

RECURSIVE LcmOf(_)
LcmOf(S) ==
    IF S = {} THEN 1
    ELSE LET d == CHOOSE e \in S : TRUE
             m == LcmOf(S \ {d})
         IN  (d \div Gcd(d, m)) * m

\* the rational r in lowest terms
Reduced(r) ==
    LET g == Gcd(Abs(r[1]), r[2])
    IN  << r[1] \div g, r[2] \div g >>

\* an array of rationals as numerators over their least common denominator
CommonDen(rs) == LcmOf({ Reduced(rs[i])[2] : i \in 1..Len(rs) })

Numerators(rs, den) ==
    [i \in 1..Len(rs) |-> Reduced(rs[i])[1] * (den \div Reduced(rs[i])[2])]

\* the error that drawing the region r raises, or None: filtered[start_idx] and
\* filtered[end_idx] are read, and np.max(y_range) of the slice [start_idx:end_idx]
RegionError(rd, r) ==
    IF r[1] >= Len(rd.filtered) \/ r[2] >= Len(rd.filtered) THEN "IndexError"
    ELSE IF Len(Slice(rd.filtered, r[1], r[2])) = 0 THEN "ValueError"
    ELSE None

\* update_results_text(): distances[peak_idx] of every stored peak is read
update_results_text(rd, pk) ==
    IF pk.present /\ \E i \in 1..Len(pk.idx) :
                        pk.idx[i] >= Min2(Len(rd.distances), Len(rd.filtered))
    THEN "IndexError"
    ELSE None

\* update_chromatogram_display(): the error it raises, or None
update_chromatogram_display(rd, pk, ints) ==
    LET bad == { j \in 1..Len(ints) : RegionError(rd, ints[j]) # None }
        firstBad == CHOOSE j \in bad : \A k \in bad : j <= k
    IN  IF ~rd.present THEN None
        ELSE IF Len(rd.distances) = 0 \/ Len(rd.filtered) = 0
        THEN update_results_text(rd, pk)
        ELSE IF Len(rd.distances) # Len(rd.filtered)
        THEN "ValueError"                      \* plot(distances, filtered)
        ELSE IF pk.present /\ pk.dtype # "int64"
        THEN "IndexError"                      \* distances[peak_indices]
        ELSE IF update_results_text(rd, pk) # None
        THEN "IndexError"
        ELSE IF bad # {} THEN RegionError(rd, ints[firstBad])
        ELSE None

\* What a call of update_chromatogram_display() that ran to its end has drawn
\* with the tab holding rd, pk, ints and fits: the markers of the peaks, the
\* regions and the fitted curves; nothing when it raised or returned at once.
Drawn(rd, pk, ints, fits) ==
    IF ~rd.present \/ update_chromatogram_display(rd, pk, ints) # None THEN << >>
    ELSE << [peaks |-> IF Len(rd.distances) = 0 \/ Len(rd.filtered) = 0
                       THEN << >> ELSE pk.idx,
             integrations |-> IF Len(rd.distances) = 0 \/ Len(rd.filtered) = 0
                              THEN << >> ELSE ints,
             mecozzi_fits |-> fits.fits] >>

\* the area that on_chrom_motion shows while a selection is dragged: the slices
\* [start_idx:end_idx+1]
on_chrom_motion_area(distances, intensities, start_idx, end_idx) ==
    AreaAboveBaseline(Slice(distances, start_idx, end_idx + 1),
                      Slice(intensities, start_idx, end_idx + 1),
                      At(intensities, start_idx), At(intensities, end_idx))

\* the area that on_chrom_release reports for the region it stores: the slices
\* [start_idx:end_idx]
on_chrom_release_area(distances, filtered, start_idx, end_idx) ==
    AreaAboveBaseline(Slice(distances, start_idx, end_idx),
                      Slice(filtered, start_idx, end_idx),
                      At(filtered, start_idx), At(filtered, end_idx))

\* the value that save_data writes to the column Integration_k_Area: the slices
\* [start_idx:end_idx]
save_data_area(distances, filtered, start_idx, end_idx) ==
    AreaAboveBaseline(Slice(distances, start_idx, end_idx),
                      Slice(filtered, start_idx, end_idx),
                      At(filtered, start_idx), At(filtered, end_idx))

\* apply_filters() ends with its data, peaks, regions and fits as they are
FiltersKept(outcome, err, data, pk, ints, fits) ==
    [outcome |-> outcome, err |-> err, results_data |-> data,
     peaks |-> pk, integrations |-> ints, mecozzi_fits |-> fits]

\* a failure that discards the peaks, regions and fits
FilterFailed_cleared(err, data, pk, ints, fits) ==
    FiltersKept("error shown", err, data, NoPeaks, << >>, NoFits)

\* the Savitzky-Golay filter raised: the dialog is shown and apply_filters returns
FilterFailed(err, data, pk, ints, fits) ==
    FiltersKept("error shown", err, data, pk, ints, fits)

\* an end of apply_filters that leaves the fits
FiltersCleared_fits_kept(data, pk, ints, fits) ==
    FiltersKept("ok", None, data, NoPeaks, << >>, fits)

\* the end of apply_filters: self.peaks = {}, self.integrations = {},
\* self.mecozzi_fits = {}
FiltersCleared(data, pk, ints, fits) ==
    FiltersKept("ok", None, data, NoPeaks, << >>, NoFits)

\* a pipeline that starts from the trace filtered last
FilterInput_filtered(rd) == rd.filtered

\* intensities = data['raw_intensities']: what the pipeline starts from
FilterInput(rd) == rd.raw_intensities

\* apply_filters(): the handler's outcome and the tab's data after it
apply_filters(rd, pk, ints, fits, window_size, poly_order, smooth_sigma, invert) ==
    LET raw == FilterInput(rd)
        w == IF window_size % 2 = 0 THEN window_size + 1 ELSE window_size
        top == SeqMax(raw)
        inverted == IF invert THEN [i \in 1..Len(raw) |-> top - raw[i]] ELSE raw
        sg == IF Len(inverted) > w
              THEN apply_savitzky_golay(inverted, w, poly_order)
              ELSE [ok |-> TRUE, y |-> inverted, scale |-> 1]
        gs == IF smooth_sigma > 0
              THEN apply_gaussian_smooth(sg.y, smooth_sigma)
              ELSE [y |-> sg.y, scale |-> 1]
        stored == [rd EXCEPT !.filtered = gs.y,
                             !.fden = rd.rden * sg.scale * gs.scale]
        shown == update_chromatogram_display(stored, pk, ints)
    IN  IF ~rd.present THEN FiltersKept("returned", None, rd, pk, ints, fits)
        ELSE IF invert /\ Len(raw) = 0                  \* np.max(intensities)
        THEN FiltersKept("raised", "ValueError", rd, pk, ints, fits)
        ELSE IF ~sg.ok THEN FilterFailed(sg.err, rd, pk, ints, fits)
        ELSE IF shown # None THEN FiltersKept("raised", shown, stored, pk, ints, fits)
        ELSE FiltersCleared(stored, pk, ints, fits)

\* fit_data['area']: the area under the fitted curve is a function of the
\* parameters and of the x range it was integrated over; a fit read from a file
\* carries the area read
FitArea(fit) ==
    IF "area" \in DOMAIN fit THEN fit.area
    ELSE [params |-> fit.params, over |-> fit.x_fit]

\* save_data(): the dialog is answered with a path.  The record written holds
\* the columns Distance, Raw_Intensity and Filtered_Intensity (numerators over
\* xden, rden, fden), the column Peaks (the filtered value at every peak, 0
\* elsewhere; << >> when the column is not written), the values of the columns
\* Integration_k_Start and Integration_k_End, and the parameters and area of
\* every fit.  An exception is caught and shown.
save_data(rd, pk, ints, fits) ==
    LET n == Len(rd.distances)
        series == [i \in 1..n |->
                     IF \E j \in 1..Len(pk.idx) : pk.idx[j] = i - 1
                     THEN rd.filtered[i] ELSE 0]
        failed(err) == [outcome |-> "error shown", err |-> err]
    IN  IF ~rd.present THEN [outcome |-> "returned", err |-> None]
        ELSE IF pk.present /\ pk.dtype # "int64"
        THEN failed("IndexError")               \* peak_series[peak_indices]
        ELSE IF pk.present /\ \E j \in 1..Len(pk.idx) :
                                 pk.idx[j] >= Min2(n, Len(rd.filtered))
        THEN failed("IndexError")
        ELSE IF \E k \in 1..Len(ints) :
                   ints[k][2] >= Min2(n, Len(rd.filtered))
        THEN failed("IndexError")               \* data['distances'][end_idx]
        ELSE IF Len(rd.raw_intensities) # n \/ Len(rd.filtered) # n
        THEN failed("ValueError")               \* pd.DataFrame(data_dict)
        ELSE [outcome |-> "ok", err |-> None,
              file |-> [Distance |-> rd.distances, xden |-> rd.xden,
                        Raw_Intensity |-> rd.raw_intensities, rden |-> rd.rden,
                        Filtered_Intensity |-> rd.filtered, fden |-> rd.fden,
                        Peaks |-> IF pk.present THEN series ELSE << >>,
                        Integrations |->
                            [k \in 1..Len(ints) |->
                                << At(rd.distances, ints[k][1]),
                                   At(rd.distances, ints[k][2]) >>],
                        Fits |-> [k \in 1..Len(fits.fits) |->
                                    [params |-> fits.fits[k].params,
                                     area |-> FitArea(fits.fits[k])]]]]

\* open_data(): what the tab holds after the file is read, and the error of
\* the display, if any
open_data(file) ==
    LET rd == [present |-> TRUE, distances |-> file.Distance, xden |-> file.xden,
               raw_intensities |-> file.Raw_Intensity, rden |-> file.rden,
               filtered |-> file.Filtered_Intensity, fden |-> file.fden]
        \* np.where(df['Peaks'] > 0)[0]
        marked == SelectSeq([i \in 1..Len(file.Peaks) |-> i - 1],
                            LAMBDA i : At(file.Peaks, i) > 0)
        pk == IF Len(marked) > 0
              THEN [present |-> TRUE, dtype |-> "int64", idx |-> marked]
              ELSE NoPeaks
        ints == [k \in 1..Len(file.Integrations) |->
                    << ArgminAbs(file.Distance, file.Integrations[k][1]),
                       ArgminAbs(file.Distance, file.Integrations[k][2]) >>]
        \* x_fit = np.linspace(c - 5*w, c + 5*w, 500); no 'peak_idx'
        loaded(f) == [params |-> f.params,
                      x_fit |-> << f.params[2] - 5 * f.params[3] * file.xden,
                                   f.params[2] + 5 * f.params[3] * file.xden >>,
                      area |-> f.area]
        fits == IF Len(file.Fits) > 0
                THEN [present |-> TRUE,
                      fits |-> [k \in 1..Len(file.Fits) |-> loaded(file.Fits[k])]]
                ELSE NoFits
    IN  [results_data |-> rd, peaks |-> pk, integrations |-> ints,
         mecozzi_fits |-> fits,
         shown |-> update_chromatogram_display(rd, pk, ints)]

(***************************************************************************)
(* app.py: the tabs of TufteChromatogramApp                                *)
(*                                                                         *)
(* A widget is [kind, id].  app holds tab_counter, the dict tabs (the      *)
(* registered chromatogram tabs in insertion order; the key of a tab is    *)
(* its id), image_tab, comparison_tab (NoWidget for None), the children of *)
(* the notebook widget (notebook.winfo_children(): every tab constructed   *)
(* with the notebook as its parent, in the order of construction; a tab    *)
(* that notebook.forget() has removed is still a child) and the tabs that  *)
(* the notebook shows, in the order of their positions.  last is the       *)
(* handler that ran last, the index it was given and the tabs shown before *)
(* it ran.                                                                 *)
(***************************************************************************)
NoWidget == [kind |-> "none", id |-> 0]

ImageWidget == [kind |-> "ImageTab", id |-> 0]

AppEnded(op, outcome, tab_idx, before) ==
    [op |-> op, outcome |-> outcome, tab_idx |-> tab_idx, before |-> before]

\* __init__, which ends with create_image_tab()
AppInit ==
    [tab_counter |-> 0, tabs |-> << >>, image_tab |-> ImageWidget,
     comparison_tab |-> NoWidget, children |-> << ImageWidget >>,
     notebook |-> << ImageWidget >>,
     last |-> AppEnded("__init__", "ok", 0, << >>)]

\* the sequence s without its element at the 0-based position idx
Forget(s, idx) == SubSeq(s, 1, idx) \o SubSeq(s, idx + 2, Len(s))

\* create_new_chromatogram_tab(), the button "New Chromatogram Tab"
create_new_chromatogram_tab(a) ==
    LET tab == [kind |-> "ChromatogramTab", id |-> a.tab_counter + 1]
    IN  [a EXCEPT !.tab_counter = a.tab_counter + 1,
                  !.children = Append(a.children, tab),
                  !.notebook = Append(a.notebook, tab),
                  !.tabs = Append(a.tabs, tab),
                  !.last = AppEnded("create_new_chromatogram_tab", "ok", 0,
                                    a.notebook)]

\* create_comparison_tab(): notebook.select raises TclError for a tab that the
\* notebook does not manage
create_comparison_tab(a) ==
    LET comparison_tab == [kind |-> "ComparisonTab", id |-> Len(a.children)]
        created == IF a.comparison_tab = NoWidget
                   THEN [a EXCEPT !.children = Append(a.children, comparison_tab),
                                  !.notebook = Append(a.notebook, comparison_tab),
                                  !.comparison_tab = comparison_tab]
                   ELSE a
        shown == \E k \in 1..Len(created.notebook) :
                     created.notebook[k] = created.comparison_tab
    IN  [created EXCEPT !.last = AppEnded("create_comparison_tab",
                                          IF shown THEN "ok" ELSE "raised",
                                          0, a.notebook)]

\* tab = self.notebook.winfo_children()[tab_idx]
ClosedWidget(a, tab_idx) == a.children[tab_idx + 1]

\* close_tab(tab_idx), tab_idx a position of the notebook
close_tab(a, tab_idx) ==
    LET tab == ClosedWidget(a, tab_idx)
        ended(outcome) == AppEnded("close_tab", outcome, tab_idx, a.notebook)
    IN  IF tab = a.image_tab
        THEN [a EXCEPT !.last = ended("info shown")]
        ELSE IF tab = a.comparison_tab
        THEN [a EXCEPT !.notebook = Forget(a.notebook, tab_idx),
                       !.comparison_tab = NoWidget,
                       !.last = ended("ok")]
        ELSE IF \E k \in 1..Len(a.tabs) : a.tabs[k] = tab
        THEN [a EXCEPT !.notebook = Forget(a.notebook, tab_idx),
                       !.tabs = SelectSeq(a.tabs, LAMBDA t : t # tab),
                       !.last = ended("ok")]
        ELSE [a EXCEPT !.last = ended("ok")]

(***************************************************************************)
(* image_tab.py: the profile lines of ImageTab                             *)
(*                                                                         *)
(* image_tab holds image (whether self.image is set), profile_lines (the   *)
(* dict in insertion order: [id, points, active] for every line),          *)
(* current_line_id (NoLine for None) and uuids, the number of ids that     *)
(* generate_unique_id (uuid.uuid4) has given out: the next id is new.      *)
(***************************************************************************)
NoLine == 0

ImageTabInit ==
    [image |-> FALSE, profile_lines |-> << >>, current_line_id |-> NoLine,
     uuids |-> 0, last |-> [op |-> "__init__", outcome |-> "ok"]]

ImageEnded(t, op, outcome) == [t EXCEPT !.last = [op |-> op, outcome |-> outcome]]

HasLine(t, line_id) ==
    \E k \in 1..Len(t.profile_lines) : t.profile_lines[k].id = line_id

\* self.profile_lines[line_id][field] = value
SetLine(lines, line_id, field, value) ==
    [k \in 1..Len(lines) |->
        IF lines[k].id = line_id THEN [lines[k] EXCEPT ![field] = value]
        ELSE lines[k]]

LineOf(t, line_id) ==
    t.profile_lines[CHOOSE k \in 1..Len(t.profile_lines) :
                        t.profile_lines[k].id = line_id]

\* a new line that leaves the line active before it active as well
Deactivated_kept(lines, line_id) == lines

\* if self.current_line_id: self.profile_lines[self.current_line_id]['active'] = False
Deactivated(lines, line_id) ==
    IF line_id # NoLine THEN SetLine(lines, line_id, "active", FALSE) ELSE lines

\* new_profile_line()
new_profile_line(t) ==
    LET line_id == t.uuids + 1
    IN  IF ~t.image THEN ImageEnded(t, "new_profile_line", "info shown")
        ELSE IF t.current_line_id # NoLine /\ ~HasLine(t, t.current_line_id)
        THEN ImageEnded([t EXCEPT !.uuids = line_id], "new_profile_line", "KeyError")
        ELSE ImageEnded(
                 [t EXCEPT !.uuids = line_id,
                           !.profile_lines =
                               Append(Deactivated(t.profile_lines, t.current_line_id),
                                      [id |-> line_id, points |-> << >>,
                                       active |-> TRUE]),
                           !.current_line_id = line_id],
                 "new_profile_line", "ok")

\* select_image(): the dialog is cancelled, the file cannot be read, or the
\* image is loaded, the lines are reset and a first line is created
select_image(t, answer) ==
    IF answer = "cancelled" THEN ImageEnded(t, "select_image", "returned")
    ELSE IF answer = "unreadable" THEN ImageEnded(t, "select_image", "error shown")
    ELSE ImageEnded(new_profile_line([t EXCEPT !.image = TRUE,
                                               !.profile_lines = << >>,
                                               !.current_line_id = NoLine]),
                    "select_image", "ok")

\* delete_profile_line()
delete_profile_line(t) ==
    LET rest == SelectSeq(t.profile_lines, LAMBDA l : l.id # t.current_line_id)
    IN  IF t.current_line_id = NoLine
        THEN ImageEnded(t, "delete_profile_line", "info shown")
        ELSE IF ~HasLine(t, t.current_line_id)
        THEN ImageEnded(t, "delete_profile_line", "ok")
        ELSE IF Len(rest) > 0
        THEN ImageEnded([t EXCEPT !.profile_lines =
                                      SetLine(rest, rest[1].id, "active", TRUE),
                                  !.current_line_id = rest[1].id],
                        "delete_profile_line", "ok")
        ELSE ImageEnded([t EXCEPT !.profile_lines = rest,
                                  !.current_line_id = NoLine],
                        "delete_profile_line", "ok")

\* on_image_click(event), the event inside the axes at the point pt
on_image_click(t, pt) ==
    IF ~t.image \/ t.current_line_id = NoLine
    THEN ImageEnded(t, "on_image_click", "info shown")
    ELSE IF ~HasLine(t, t.current_line_id)
    THEN ImageEnded(t, "on_image_click", "KeyError")
    ELSE ImageEnded([t EXCEPT !.profile_lines =
                        SetLine(t.profile_lines, t.current_line_id, "points",
                                Append(LineOf(t, t.current_line_id).points, pt))],
                    "on_image_click", "ok")

\* on_image_key(event) for ctrl+z
on_image_key(t) ==
    IF t.current_line_id = NoLine THEN ImageEnded(t, "on_image_key", "ok")
    ELSE IF ~HasLine(t, t.current_line_id)
    THEN ImageEnded(t, "on_image_key", "KeyError")
    ELSE IF Len(LineOf(t, t.current_line_id).points) = 0
    THEN ImageEnded(t, "on_image_key", "ok")
    ELSE ImageEnded([t EXCEPT !.profile_lines =
                        SetLine(t.profile_lines, t.current_line_id, "points",
                                LET pts == LineOf(t, t.current_line_id).points
                                IN  SubSeq(pts, 1, Len(pts) - 1))],
                    "on_image_key", "ok")

(***************************************************************************)
(* The inputs of the numeric core                                          *)
(***************************************************************************)
MaxCoord == 1

MaxPoints == 3

MaxBand == 3

\* a 2-D (grey) image and a 3-D (RGB) image of MaxCoord x MaxCoord pixels
GreyImage ==
    [rows |-> MaxCoord, cols |-> MaxCoord, channels |-> 0,
     px |-> [p \in (0..(MaxCoord - 1)) \X (0..(MaxCoord - 1)) |-> 4 * p[1] + 2 * p[2] + 1]]

RGBImage ==
    [rows |-> MaxCoord, cols |-> MaxCoord, channels |-> 3,
     px |-> [p \in (0..(MaxCoord - 1)) \X (0..(MaxCoord - 1)) |->
                << 3 * p[1], 3 * p[2] + 1, 2 >>]]

Images == { GreyImage, RGBImage }

\* A path has up to MaxPoints points on the row y = 0 or on the column x = 0 of
\* the image, from one pixel before the image to one pixel after it.
PathPositions == (-1)..MaxCoord

ShortPaths ==
    UNION { { [k \in 1..n |-> << ts[k], 0 >>] : ts \in [1..n -> PathPositions] }
            \cup { [k \in 1..n |-> << 0, ts[k] >>] : ts \in [1..n -> PathPositions] }
            : n \in 0..MaxPoints }

\* The path that goes from (0,0) to (1,0) and back 2 * (MinSamples - 1) times in
\* all: its total length is 2 * (MinSamples - 1), so that it is resampled at
\* MinSamples positions 2 apart.
ZigzagPath == [k \in 1..(2 * (MinSamples - 1) + 1) |-> << (k + 1) % 2, 0 >>]

\* a straight path whose length is odd and above 2 * MinSamples: half its
\* length is not an integer
OddLength == 1003

LongPath == << << 0, 0 >>, << OddLength, 0 >> >>

Paths == ShortPaths \cup { ZigzagPath, LongPath }

BandWidths == { 1, MaxBand }

NoCall == [fn |-> "none", pc |-> "returned"]

TabInit ==
    /\ results_data = NoData
    /\ peaks = NoPeaks
    /\ integrations = << >>
    /\ mecozzi_fits = NoFits
    /\ selection_start = NoSelection
    /\ manual_integration_active = FALSE
    /\ last = Ended("__init__", "ok", None, NoStatus)
    /\ app = AppInit
    /\ image_tab = ImageTabInit

(***************************************************************************)
(* The inputs of a ChromatogramTab                                         *)
(***************************************************************************)
\* the values of the tab's widgets when it is created
DefaultBandWidth == 5

DefaultWindowSize == 15

DefaultPolyOrder == 3

DefaultSmooth == 0

DefaultInvert == TRUE

\* the half of the default peak height 0.5, the prominence and width that the
\* tab passes to detect_peaks
DefaultPeakHeight == << 1, 2 >>

TabProminence == 10

TabWidth == 3

\* the settings of the filter widgets that the user chooses from
FilterSettings ==
    { [window_size |-> DefaultWindowSize, poly_order |-> DefaultPolyOrder,
       smooth_sigma |-> DefaultSmooth, invert |-> DefaultInvert],
      [window_size |-> 5, poly_order |-> 3, smooth_sigma |-> 0, invert |-> TRUE],
      [window_size |-> 5, poly_order |-> 3, smooth_sigma |-> 0, invert |-> FALSE],
      [window_size |-> 5, poly_order |-> 5, smooth_sigma |-> 0, invert |-> TRUE] }

\* the settings of the peak distance widget (its scale starts at 5)
TabDistances == { 5 }

\* the x positions (in the units of distances) of mouse events on the plot
ClickXs == { 1, 5 }

\* an image of one row of two equal pixels, and the lines drawn on it in the
\* image tab: from one pixel to the other, and two clicks on the same pixel
TabImage ==
    [rows |-> 1, cols |-> 2, channels |-> 0, px |-> [p \in {0} \X {0, 1} |-> 7]]

TabPaths == { << << 0, 0 >>, << 1, 0 >> >>, << << 0, 0 >>, << 0, 0 >> >> }

\* the CSV files that open_data reads: the columns Distance, Raw_Intensity,
\* Filtered_Intensity and Peaks, and the pairs of the first-row values of the
\* columns Integration_k_Start and Integration_k_End
Sawtooth == << 0, 1, 2, 3, 2, 1, 0, 1, 2, 3, 2, 1, 0 >>

CsvFile(raw, filtered, flags, regions) ==
    [Distance |-> [i \in 1..Len(filtered) |-> i - 1], xden |-> 1,
     Raw_Intensity |-> raw, rden |-> 1, Filtered_Intensity |-> filtered, fden |-> 1,
     Peaks |-> flags, Integrations |-> regions, Fits |-> << >>]

Files ==
    { CsvFile([i \in 1..13 |-> 3 - Sawtooth[i]], Sawtooth,
              [i \in 1..13 |-> IF i - 1 \in {3, 9} THEN 1 ELSE 0], << << 1, 5 >> >>),
      CsvFile([i \in 1..6 |-> 5], [i \in 1..6 |-> 5], [i \in 1..6 |-> 0], << >>),
      CsvFile(<< >>, << >>, << >>, << >>) }

\* the tab holds at most MaxRegions regions in the model
MaxRegions == 1

(***************************************************************************)
(* SpecExtract: extract_profile applied to every image, path and band      *)
(* width of the input sets.                                                *)
(***************************************************************************)
\* Traces: every sequence of up to MaxLen samples over three intensity levels
MaxLen == 6

Levels == { 0, 1, 2 }

Traces == UNION { [1..n -> Levels] : n \in 0..MaxLen }

\* height thresholds 0, 1/2 and 1; distances from 0 (which find_peaks rejects)
HeightThresholds == { << 0, 1 >>, << 1, 2 >>, << 1, 1 >> }

MaxDistance == 3

Distances == 0..MaxDistance

\* (prominence, width): no condition, and the values ChromatogramTab passes
ProminenceWidths == { << 0, 0 >>, << 10, 3 >> }

\* A call of the numeric core is [fn, pc, <arguments>, result]: pc is "called"
\* before the function has run, "returned" once result holds what it gave.
NoResult == [ok |-> FALSE, err |-> "not run"]

InitExtract ==
    /\ TabInit
    /\ \E image \in Images, points \in Paths, band_width \in BandWidths :
          call = [fn |-> "extract_profile", image |-> image, points |-> points,
                  band_width |-> band_width, pc |-> "called", result |-> NoResult]

CallExtractProfile ==
    /\ call.fn = "extract_profile" /\ call.pc = "called"
    /\ call' = [call EXCEPT !.pc = "returned",
                            !.result = extract_profile(call.image, call.points, call.band_width)]
    /\ UNCHANGED tabvars

NextExtract == CallExtractProfile

SpecExtract == InitExtract /\ [][NextExtract]_vars

(***************************************************************************)
(* SpecBand: sample_band applied to every image, short path and band       *)
(* width: the list it has built when its loop over the pairs of points     *)
(* ends, and the array it returns.                                         *)
(***************************************************************************)
InitBand ==
    /\ TabInit
    /\ \E image \in Images, points \in ShortPaths, band_width \in BandWidths :
          call = [fn |-> "sample_band", image |-> image, points |-> points,
                  band_width |-> band_width, pc |-> "called", result |-> NoResult]

CallSampleBand ==
    /\ call.fn = "sample_band" /\ call.pc = "called"
    /\ call' = [call EXCEPT
                  !.pc = "returned",
                  !.result =
                    [ok |-> TRUE,
                     appended |-> PairIntensities(call.image, call.points, 1,
                                      call.band_width, 1, Len(call.points) - 1),
                     intensities |-> sample_band(call.image, call.points, 1,
                                                 call.band_width)]]
    /\ UNCHANGED tabvars

NextBand == CallSampleBand

SpecBand == InitBand /\ [][NextBand]_vars

(***************************************************************************)
(* SpecDetect: detect_peaks applied to every trace and parameter set.      *)
(***************************************************************************)
InitDetect ==
    /\ TabInit
    /\ \E data \in Traces, ht \in HeightThresholds, distance \in Distances,
          pw \in ProminenceWidths :
          call = [fn |-> "detect_peaks", data |-> data, height_threshold |-> ht,
                  distance |-> distance, prominence |-> pw[1], width |-> pw[2],
                  pc |-> "called", result |-> NoResult]

CallDetectPeaks ==
    /\ call.fn = "detect_peaks" /\ call.pc = "called"
    /\ call' = [call EXCEPT !.pc = "returned",
                            !.result = detect_peaks(call.data, call.height_threshold,
                                           call.distance, call.prominence, call.width)]
    /\ UNCHANGED tabvars

NextDetect == CallDetectPeaks

SpecDetect == InitDetect /\ [][NextDetect]_vars

(***************************************************************************)
(* SpecIntegrate: manual_integration applied to every trace of up to       *)
(* MaxIntLen samples, 2 apart on the x axis, and every pair of x values.   *)
(***************************************************************************)
MaxIntLen == 4

IntTraces == UNION { [1..n -> Levels] : n \in 0..MaxIntLen }

XGrid(n) == [i \in 1..n |-> 2 * (i - 1)]

XValues == (-1)..(2 * MaxIntLen - 1)

\* x values 0, 1, 4, 9, ...: increasing steps
UnevenGrid(n) == [i \in 1..n |-> (i - 1) * (i - 1)]

\* the trace 0, 10, 0 on the x values 0, 1, 2
PeakExample == [x_data |-> << 0, 1, 2 >>, y_data |-> << 0, 10, 0 >>]

IntegrateInputs ==
    { [x_data |-> XGrid(Len(y)), y_data |-> y] : y \in IntTraces }
        \cup { [x_data |-> UnevenGrid(Len(y)), y_data |-> y] : y \in IntTraces }
        \cup { PeakExample }

InitIntegrate ==
    /\ TabInit
    /\ \E in \in IntegrateInputs, a \in XValues, b \in XValues :
         call = [fn |-> "manual_integration", pc |-> "called",
                 x_data |-> in.x_data, y_data |-> in.y_data,
                 start_x |-> a, end_x |-> b, result |-> NoResult]

CallManualIntegration ==
    /\ call.fn = "manual_integration" /\ call.pc = "called"
    /\ call' = [call EXCEPT !.pc = "returned",
                            !.result = manual_integration(call.x_data, call.y_data,
                                                          call.start_x, call.end_x)]
    /\ UNCHANGED tabvars

NextIntegrate == CallManualIntegration

SpecIntegrate == InitIntegrate /\ [][NextIntegrate]_vars

(***************************************************************************)
(* SpecRegion: one selection, from the x of the button press to the x of   *)
(* the pointer, on every non-empty trace of up to MaxIntLen samples: the   *)
(* region it gives and the area that each part of the program computes for *)
(* that region.                                                            *)
(***************************************************************************)
RegionTraces == IntTraces \ { << >> }

InitRegion ==
    /\ TabInit
    /\ \E y \in RegionTraces, a \in XValues, b \in XValues :
         call = [fn |-> "region", pc |-> "called",
                 x_data |-> XGrid(Len(y)), y_data |-> y,
                 start_x |-> a, end_x |-> b, result |-> NoResult]

\* the selection is dragged (on_chrom_motion), released (on_chrom_release),
\* integrated (manual_integration, calculate_integration_area) and saved
\* (save_data)
CallRegionAreas ==
    /\ call.fn = "region" /\ call.pc = "called"
    /\ \E r \in { OrderedPair(ArgminAbs(call.x_data, call.start_x),
                              ArgminAbs(call.x_data, call.end_x)) } :
         call' = [call EXCEPT
                    !.pc = "returned",
                    !.result =
                      [ok |-> TRUE, start_idx |-> r[1], end_idx |-> r[2],
                       previewed |-> on_chrom_motion_area(call.x_data, call.y_data,
                                                          r[1], r[2]),
                       released |-> on_chrom_release_area(call.x_data, call.y_data,
                                                          r[1], r[2]),
                       manual |-> manual_integration(call.x_data, call.y_data,
                                                     call.start_x, call.end_x).area,
                       computed |-> calculate_integration_area(call.x_data,
                                                               call.y_data,
                                                               r[1], r[2]),
                       saved |-> save_data_area(call.x_data, call.y_data,
                                                r[1], r[2])]]
    /\ UNCHANGED tabvars

NextRegion == CallRegionAreas

SpecRegion == InitRegion /\ [][NextRegion]_vars

(***************************************************************************)
(* SpecArea: calculate_area applied to every trace of up to MaxAreaLen     *)
(* samples that lie below, on or above zero, over an even and an uneven    *)
(* x grid.                                                                 *)
(***************************************************************************)
MaxAreaLen == 4

AreaLevels == { -1, 0, 2 }

AreaTraces == UNION { [1..n -> AreaLevels] : n \in 0..MaxAreaLen }

InitArea ==
    /\ TabInit
    /\ \E y \in AreaTraces :
       \E x \in { XGrid(Len(y)), UnevenGrid(Len(y)) } :
         call = [fn |-> "calculate_area", pc |-> "called",
                 y_values |-> y, x_values |-> x, result |-> NoResult]

CallCalculateArea ==
    /\ call.fn = "calculate_area" /\ call.pc = "called"
    /\ call' = [call EXCEPT !.pc = "returned",
                            !.result = calculate_area(call.y_values, 1,
                                                      call.x_values)]
    /\ UNCHANGED tabvars

NextArea == CallCalculateArea

SpecArea == InitArea /\ [][NextArea]_vars

(***************************************************************************)
(* SpecMecozzi: mecozzi_a applied to arrays of up to MaxCurveLen x values  *)
(* around the center, for half-widths and asymmetries inside the bounds of *)
(* the fit: asymmetry below 2, equal to 2 and above 2.                     *)
(***************************************************************************)
MaxCurveLen == 2

CurveXs == (-3)..3

CurveArrays == UNION { [1..n -> CurveXs] : n \in 1..MaxCurveLen }

HalfWidths == { 1, 2 }

\* 1/2, 1, 2 and 3, all in [0.1, 10]
Asymmetries == { << 1, 2 >>, << 1, 1 >>, << 2, 1 >>, << 3, 1 >> }

InitMecozzi ==
    /\ TabInit
    /\ \E x \in CurveArrays, hwhm \in HalfWidths, asym \in Asymmetries :
         call = [fn |-> "mecozzi_a", pc |-> "called", x |-> x, center |-> 0,
                 hwhm |-> hwhm, asym |-> asym, result |-> NoResult]

CallMecozziA ==
    /\ call.fn = "mecozzi_a" /\ call.pc = "called"
    /\ call' = [call EXCEPT !.pc = "returned",
                            !.result = mecozzi_a(call.x, call.center, call.hwhm,
                                                 call.asym)]
    /\ UNCHANGED tabvars

NextMecozzi == CallMecozziA

SpecMecozzi == InitMecozzi /\ [][NextMecozzi]_vars

(***************************************************************************)
(* SpecSavgol: apply_savitzky_golay applied to every trace of up to        *)
(* MaxSgLen samples, for an even and an odd window size and polynomial     *)
(* orders below, one below and equal to the odd window.                    *)
(***************************************************************************)
MaxSgLen == 7

SgTraces == UNION { [1..n -> Levels] : n \in 0..MaxSgLen }

WindowSizes == { 4, 5 }

PolyOrders == { 3, 4, 5 }

InitSavgol ==
    /\ TabInit
    /\ \E data \in SgTraces, window_size \in WindowSizes, poly_order \in PolyOrders :
         call = [fn |-> "apply_savitzky_golay", pc |-> "called", data |-> data,
                 window_size |-> window_size, poly_order |-> poly_order,
                 result |-> NoResult]

CallApplySavitzkyGolay ==
    /\ call.fn = "apply_savitzky_golay" /\ call.pc = "called"
    /\ call' = [call EXCEPT !.pc = "returned",
                            !.result = apply_savitzky_golay(call.data,
                                           call.window_size, call.poly_order)]
    /\ UNCHANGED tabvars

NextSavgol == CallApplySavitzkyGolay

SpecSavgol == InitSavgol /\ [][NextSavgol]_vars

(***************************************************************************)
(* SpecAuto: find_integration_bounds and auto_integrate_peaks applied to   *)
(* every trace of up to MaxAutoLen samples and every ascending list of up  *)
(* to two of its indices, for three width percentages and two              *)
(* sensitivities.                                                          *)
(***************************************************************************)
MaxAutoLen == 6

AutoTraces == UNION { [1..n -> AreaLevels] : n \in 0..MaxAutoLen }

\* the ascending lists of up to two indices of a trace of n samples
PeakLists(n) ==
    { << >> } \cup { << p >> : p \in 0..(n - 1) }
              \cup UNION { { << p, q >> : q \in (p + 1)..(n - 1) } : p \in 0..(n - 1) }

WidthPercents == { 0, 50, 100 }

Sensitivities == { << 0, 1 >>, << 1, 1 >> }

InitAuto ==
    /\ TabInit
    /\ \E y \in AutoTraces, width_percent \in WidthPercents,
          sensitivity \in Sensitivities :
       \E peak_indices \in PeakLists(Len(y)) :
         call = [fn |-> "auto_integrate_peaks", pc |-> "called",
                 distances |-> XGrid(Len(y)), intensities |-> y,
                 peak_indices |-> peak_indices, width_percent |-> width_percent,
                 sensitivity |-> sensitivity, result |-> NoResult]

\* auto_integrate_peaks is called for the list, find_integration_bounds for each
\* of its peaks
CallAutoIntegrate ==
    /\ call.fn = "auto_integrate_peaks" /\ call.pc = "called"
    /\ call' = [call EXCEPT
                  !.pc = "returned",
                  !.result =
                    [ok |-> TRUE,
                     integrations |-> auto_integrate_peaks(call.distances,
                                          call.intensities, call.peak_indices,
                                          call.width_percent, call.sensitivity),
                     bounds |-> [k \in 1..Len(call.peak_indices) |->
                                   find_integration_bounds(call.distances,
                                       call.intensities, call.peak_indices[k],
                                       call.width_percent, call.sensitivity)]]]
    /\ UNCHANGED tabvars

NextAuto == CallAutoIntegrate

SpecAuto == InitAuto /\ [][NextAuto]_vars

(***************************************************************************)
(* SpecFit: fit_mecozzi_to_peak applied to every trace of up to MaxFitLen  *)
(* samples and to one trace longer than the fit window, at peak indices    *)
(* inside and outside the trace, the optimiser converging or not.          *)
(***************************************************************************)
MaxFitLen == 4

FitTraces == UNION { [1..n -> Levels] : n \in 0..MaxFitLen }

\* a triangle of 2 * FitWindow + 3 samples with its apex in the middle
LongTrace ==
    [i \in 1..(2 * FitWindow + 3) |-> Min2(i - 1, 2 * FitWindow + 3 - i)]

\* peak indices from one before the trace to one after it and, for the long
\* trace, the apex and the index a window after the end
FitIndices(y) ==
    ((-1)..Len(y)) \cup (IF Len(y) > FitWindow THEN { FitWindow + 1, Len(y) + FitWindow }
                        ELSE {})

InitFit ==
    /\ TabInit
    /\ \E y \in FitTraces \cup { LongTrace }, converges \in BOOLEAN :
       \E peak_idx \in FitIndices(y) :
         call = [fn |-> "fit_mecozzi_to_peak", pc |-> "called",
                 x_data |-> [i \in 1..Len(y) |-> i - 1], y_data |-> y,
                 peak_idx |-> peak_idx, converges |-> converges,
                 result |-> NoResult]

CallFitMecozziToPeak ==
    /\ call.fn = "fit_mecozzi_to_peak" /\ call.pc = "called"
    /\ call' = [call EXCEPT !.pc = "returned",
                            !.result = fit_mecozzi_to_peak(call.x_data, call.y_data,
                                                           call.peak_idx,
                                                           call.converges)]
    /\ UNCHANGED tabvars

NextFit == CallFitMecozziToPeak

SpecFit == InitFit /\ [][NextFit]_vars

(***************************************************************************)
(* Spec: one ChromatogramTab and the handlers the user can start on it.    *)
(***************************************************************************)
Init == TabInit /\ call = NoCall

\* app.create_new_chromatogram_tab: set_image_data, then extract_and_analyze,
\* on the tab just constructed
ExtractAndAnalyze ==
    /\ last.op = "__init__"
    /\ \E points \in TabPaths :
       \E e \in { extract_profile(TabImage, points, DefaultBandWidth) } :
       \E rden \in { CommonDen(e.intensities) } :
       \E raw \in { Numerators(e.intensities, rden) } :
       \E rd \in { [present |-> TRUE, distances |-> e.distances, xden |-> e.dden,
                    raw_intensities |-> raw, rden |-> rden,
                    filtered |-> raw, fden |-> rden] } :
       \E af \in { apply_filters(rd, peaks, integrations, mecozzi_fits,
                                 DefaultWindowSize, DefaultPolyOrder,
                                 DefaultSmooth, DefaultInvert) } :
        LET shown == update_chromatogram_display(af.results_data, af.peaks,
                                                 af.integrations)
            err == IF af.outcome = "raised" THEN af.err ELSE shown
        IN  /\ results_data' = af.results_data
            /\ peaks' = af.peaks
            /\ integrations' = af.integrations
            /\ mecozzi_fits' = af.mecozzi_fits
            /\ last' = [Shown("extract_and_analyze", err,
                              Status("Extraction complete", 0, 1))
                        EXCEPT !.drawn =
                            IF af.outcome = "raised" THEN << >>
                            ELSE Drawn(af.results_data, af.peaks, af.integrations,
                                       af.mecozzi_fits)]
    /\ UNCHANGED << selection_start, manual_integration_active, call, app, image_tab >>

\* open_data: the dialog is cancelled, or a file is read
OpenData ==
    /\ \/ /\ last' = Ended("open_data", "returned", None, NoStatus)
          /\ UNCHANGED << results_data, peaks, integrations, mecozzi_fits >>
       \/ \E file \in Files :
          \E od \in { open_data(file) } :
            /\ results_data' = od.results_data
            /\ peaks' = od.peaks
            /\ integrations' = od.integrations
            /\ mecozzi_fits' = od.mecozzi_fits
            /\ last' = IF od.shown = None
                       THEN [Ended("open_data", "ok", None,
                                   Status("Data loaded", 0, 1))
                             EXCEPT !.drawn = Drawn(od.results_data, od.peaks,
                                                    od.integrations,
                                                    od.mecozzi_fits)]
                       ELSE Ended("open_data", "error shown", od.shown, NoStatus)
    /\ UNCHANGED << selection_start, manual_integration_active, call, app, image_tab >>

\* apply_filters, started by one of the filter widgets
ApplyFilters ==
    /\ results_data.present          \* the widgets' callbacks test self.results_data
    /\ \E f \in FilterSettings :
       \E af \in { apply_filters(results_data, peaks, integrations, mecozzi_fits,
                                 f.window_size, f.poly_order, f.smooth_sigma,
                                 f.invert) } :
            /\ results_data' = af.results_data
            /\ peaks' = af.peaks
            /\ integrations' = af.integrations
            /\ mecozzi_fits' = af.mecozzi_fits
            /\ last' = [Ended("apply_filters", af.outcome, af.err, NoStatus)
                        EXCEPT !.drawn =
                            \* the display is updated before the peaks, regions
                            \* and fits are cleared
                            IF af.outcome = "ok"
                            THEN Drawn(af.results_data, peaks, integrations,
                                       mecozzi_fits)
                            ELSE << >>,
                               !.before =
                            << [settings |-> f,
                                raw_intensities |-> results_data.raw_intensities,
                                rden |-> results_data.rden,
                                filtered |-> results_data.filtered,
                                fden |-> results_data.fden, peaks |-> peaks,
                                integrations |-> integrations,
                                mecozzi_fits |-> mecozzi_fits] >>]
    /\ UNCHANGED << selection_start, manual_integration_active, call, app, image_tab >>

\* detect_peaks, the button "Detect Peaks"
DetectPeaks ==
    /\ \E distance \in TabDistances :
        LET filtered == results_data.filtered
            found == detect_peaks(filtered, DefaultPeakHeight, distance,
                                  TabProminence, TabWidth)
            pk == [present |-> TRUE, dtype |-> found.dtype, idx |-> found.peaks]
            shown == update_chromatogram_display(results_data, pk, integrations)
        IN  IF ~results_data.present \/ Len(filtered) = 0
            THEN /\ last' = Ended("detect_peaks", "returned", None, NoStatus)
                 /\ UNCHANGED peaks
            ELSE IF ~found.ok
            THEN /\ last' = Ended("detect_peaks", "error shown", found.err, NoStatus)
                 /\ UNCHANGED peaks
            ELSE /\ peaks' = pk
                 /\ last' = [Shown("detect_peaks", shown,
                                   Status("Detected peaks", Len(found.peaks), 1))
                             EXCEPT !.drawn = Drawn(results_data, pk, integrations,
                                                    mecozzi_fits)]
    /\ UNCHANGED << results_data, integrations, mecozzi_fits, selection_start,
                    manual_integration_active, call, app, image_tab >>

\* clear_peaks, the button "Clear Peaks"
ClearPeaks ==
    LET shown == update_chromatogram_display(results_data, NoPeaks, integrations)
    IN  /\ peaks' = NoPeaks
        /\ last' = [Shown("clear_peaks", shown, Status("Peaks cleared", 0, 1))
                    EXCEPT !.drawn = Drawn(results_data, NoPeaks, integrations,
                                           mecozzi_fits)]
        /\ UNCHANGED << results_data, integrations, mecozzi_fits, selection_start,
                        manual_integration_active, call, app, image_tab >>

\* clear_integrations, the button "Clear Integrations"
ClearIntegrations ==
    LET shown == update_chromatogram_display(results_data, peaks, << >>)
    IN  /\ integrations' = << >>
        /\ last' = [Shown("clear_integrations", shown,
                          Status("Integrations cleared", 0, 1))
                    EXCEPT !.drawn = Drawn(results_data, peaks, << >>,
                                           mecozzi_fits)]
        /\ UNCHANGED << results_data, peaks, mecozzi_fits, selection_start,
                        manual_integration_active, call, app, image_tab >>

\* enable_manual_integration, the command of the button while the mode is off
EnableManualIntegration ==
    /\ ~manual_integration_active
    /\ manual_integration_active' = TRUE
    /\ last' = Ended("enable_manual_integration", "ok", None,
                     Status("Manual integration mode enabled", 0, 1))
    /\ UNCHANGED << results_data, peaks, integrations, mecozzi_fits,
                    selection_start, call, app, image_tab >>

\* disable_manual_integration, the command of the button while the mode is on
DisableManualIntegration ==
    /\ manual_integration_active
    /\ manual_integration_active' = FALSE
    /\ last' = Ended("disable_manual_integration", "ok", None,
                     Status("Manual integration mode disabled", 0, 1))
    /\ UNCHANGED << results_data, peaks, integrations, mecozzi_fits,
                    selection_start, call, app, image_tab >>

\* on_chrom_click: a button press at x, inside or outside the axes
OnChromClick ==
    /\ \E x \in ClickXs, inaxes \in BOOLEAN :
        IF ~inaxes \/ ~results_data.present
        THEN /\ last' = Ended("on_chrom_click", "returned", None, NoStatus)
             /\ UNCHANGED selection_start
        ELSE /\ selection_start' = << x >>
             /\ last' = Ended("on_chrom_click", "ok", None, NoStatus)
    /\ UNCHANGED << results_data, peaks, integrations, mecozzi_fits,
                    manual_integration_active, call, app, image_tab >>

\* on_chrom_release: a button release at x, inside or outside the axes
OnChromRelease ==
    /\ manual_integration_active => Len(integrations) < MaxRegions
    /\ \E x \in ClickXs, inaxes \in BOOLEAN :
        LET distances == results_data.distances
            filtered == results_data.filtered
            i1 == ArgminAbs(distances, selection_start[1] * results_data.xden)
            i2 == ArgminAbs(distances, x * results_data.xden)
            start_idx == IF i1 > i2 THEN i2 ELSE i1
            end_idx == IF i1 > i2 THEN i1 ELSE i2
            added == Append(integrations, << start_idx, end_idx >>)
            area == on_chrom_release_area(distances, filtered, start_idx, end_idx)
            shown == update_chromatogram_display(results_data, peaks, added)
        IN  IF ~inaxes \/ ~results_data.present
                \/ (selection_start # NoSelection
                    /\ (Len(distances) = 0 \/ Len(filtered) = 0))
            THEN /\ last' = Ended("on_chrom_release", "returned", None, NoStatus)
                 /\ UNCHANGED << integrations, selection_start >>
            ELSE IF selection_start = NoSelection
            THEN /\ last' = Ended("on_chrom_release", "ok", None, NoStatus)
                 /\ UNCHANGED << integrations, selection_start >>
            ELSE IF ~manual_integration_active
            THEN /\ selection_start' = NoSelection
                 /\ last' = Ended("on_chrom_release", "ok", None, NoStatus)
                 /\ UNCHANGED integrations
            ELSE /\ integrations' = added
                 /\ selection_start' = IF shown = None THEN NoSelection
                                       ELSE selection_start
                 \* set_status comes before the display is updated
                 /\ last' = [Ended("on_chrom_release",
                                   IF shown = None THEN "ok" ELSE "raised", shown,
                                   Status("Integrated area", area[1],
                                          area[2] * results_data.fden
                                                  * results_data.xden))
                             EXCEPT !.drawn = Drawn(results_data, peaks, added,
                                                    mecozzi_fits)]
    /\ UNCHANGED << results_data, peaks, mecozzi_fits, manual_integration_active,
                    call, app, image_tab >>

\* a loop that stops at the first peak whose fit fails
FitEachPeak_until_failure(distances, filtered, idx, converges) ==
    LET fit(k) == fit_mecozzi_to_peak(distances, filtered, idx[k], converges[k])
        bad == { k \in 1..Len(idx) : ~fit(k).ok }
        stop == IF bad = {} THEN Len(idx) + 1
                ELSE CHOOSE k \in bad : \A j \in bad : k <= j
    IN  [fits |-> [j \in 1..(stop - 1) |-> fit(j).fit],
         total_fits |-> stop - 1,
         printed |-> IF bad = {} THEN << >> ELSE << idx[stop] >>]

\* The loop of fit_all_peaks over the stored peaks: a fit that succeeds is
\* appended and counted, one that fails prints a line.  converges[k] says
\* whether the optimiser converges on the k-th peak.
FitEachPeak(distances, filtered, idx, converges) ==
    LET fit(k) == fit_mecozzi_to_peak(distances, filtered, idx[k], converges[k])
        tried == [k \in 1..Len(idx) |-> k]
        fitted == SelectSeq(tried, LAMBDA k : fit(k).ok)
        failed == SelectSeq(tried, LAMBDA k : ~fit(k).ok)
    IN  [fits |-> [j \in 1..Len(fitted) |-> fit(fitted[j]).fit],
         total_fits |-> Len(fitted),
         printed |-> [j \in 1..Len(failed) |-> idx[failed[j]]]]

\* fit_all_peaks, the button "Fit All Peaks"
FitAllPeaks ==
    /\ \E converges \in [1..Len(peaks.idx) -> BOOLEAN] :
       \E loop \in { FitEachPeak(results_data.distances, results_data.filtered,
                                 peaks.idx, converges) } :
        LET n == Len(peaks.idx)
            stored == [present |-> TRUE, fits |-> loop.fits]
            shown == update_chromatogram_display(results_data, peaks, integrations)
        IN  IF ~results_data.present \/ ~peaks.present
            THEN /\ last' = Ended("fit_all_peaks", "returned", None, NoStatus)
                 /\ UNCHANGED mecozzi_fits
            ELSE IF n = 0
            THEN /\ mecozzi_fits' = NoFits
                 /\ last' = Ended("fit_all_peaks", "returned", None, NoStatus)
            ELSE /\ mecozzi_fits' = stored
                 /\ last' = [Shown("fit_all_peaks", shown,
                                   Status("Fitted peaks", loop.total_fits, 1))
                             EXCEPT !.printed = loop.printed,
                                    !.drawn = Drawn(results_data, peaks,
                                                    integrations, stored)]
    /\ UNCHANGED << results_data, peaks, integrations, selection_start,
                    manual_integration_active, call, app, image_tab >>

\* integrate_fitted_peaks, the button "Integrate Fitted Peaks"
IntegrateFittedPeaks ==
    /\ IF ~results_data.present \/ ~mecozzi_fits.present
       THEN last' = Ended("integrate_fitted_peaks", "returned", None, NoStatus)
       ELSE last' = Ended("integrate_fitted_peaks", "ok", None,
                          Status("Integrated fitted peaks", 0, 1))
    /\ UNCHANGED << results_data, peaks, integrations, mecozzi_fits,
                    selection_start, manual_integration_active, call, app, image_tab >>

Next ==
    \/ ExtractAndAnalyze
    \/ OpenData
    \/ ApplyFilters
    \/ DetectPeaks
    \/ ClearPeaks
    \/ ClearIntegrations
    \/ EnableManualIntegration
    \/ DisableManualIntegration
    \/ OnChromClick
    \/ OnChromRelease
    \/ FitAllPeaks
    \/ IntegrateFittedPeaks

Spec == Init /\ [][Next]_vars

(***************************************************************************)
(* SpecApp: the buttons "New Chromatogram Tab" and "Comparison Tab" and    *)
(* the entry "Close" of the menu of every tab shown, for up to MaxTabs     *)
(* chromatogram tabs and MaxWidgets tabs in all.                           *)
(***************************************************************************)
MaxTabs == 3

MaxWidgets == 5

InitApp == TabInit /\ call = NoCall

CreateNewChromatogramTab ==
    /\ app.tab_counter < MaxTabs
    /\ Len(app.children) < MaxWidgets
    /\ app' = create_new_chromatogram_tab(app)
    /\ UNCHANGED << chromvars, call, image_tab >>

CreateComparisonTab ==
    /\ Len(app.children) < MaxWidgets
    /\ app' = create_comparison_tab(app)
    /\ UNCHANGED << chromvars, call, image_tab >>

\* on_tab_right_click on the tab at position tab_idx, then "Close"
CloseTab ==
    /\ \E tab_idx \in 0..(Len(app.notebook) - 1) : app' = close_tab(app, tab_idx)
    /\ UNCHANGED << chromvars, call, image_tab >>

NextApp ==
    \/ CreateNewChromatogramTab
    \/ CreateComparisonTab
    \/ CloseTab

SpecApp == InitApp /\ [][NextApp]_vars

(***************************************************************************)
(* SpecImage: the image tab's buttons "Select Image", "New Line" and       *)
(* "Delete Line", clicks on the image and ctrl+z, for up to MaxLines lines *)
(* created in all and up to MaxLinePoints points on a line.                *)
(***************************************************************************)
MaxLines == 4

MaxLinePoints == 2

DialogAnswers == { "cancelled", "unreadable", "loaded" }

ClickPoints == { << 0, 0 >>, << 1, 0 >> }

InitImage == TabInit /\ call = NoCall

SelectImage ==
    /\ image_tab.uuids < MaxLines
    /\ \E answer \in DialogAnswers : image_tab' = select_image(image_tab, answer)
    /\ UNCHANGED << chromvars, call, app >>

NewProfileLine ==
    /\ image_tab.uuids < MaxLines
    /\ image_tab' = new_profile_line(image_tab)
    /\ UNCHANGED << chromvars, call, app >>

DeleteProfileLine ==
    /\ image_tab' = delete_profile_line(image_tab)
    /\ UNCHANGED << chromvars, call, app >>

OnImageClick ==
    /\ \A k \in 1..Len(image_tab.profile_lines) :
           Len(image_tab.profile_lines[k].points) < MaxLinePoints
    /\ \E pt \in ClickPoints : image_tab' = on_image_click(image_tab, pt)
    /\ UNCHANGED << chromvars, call, app >>

OnImageKey ==
    /\ image_tab' = on_image_key(image_tab)
    /\ UNCHANGED << chromvars, call, app >>

NextImage ==
    \/ SelectImage
    \/ NewProfileLine
    \/ DeleteProfileLine
    \/ OnImageClick
    \/ OnImageKey

SpecImage == InitImage /\ [][NextImage]_vars

(***************************************************************************)
(* SpecSave: save_data on a tab that holds a profile, with or without      *)
(* detected peaks, regions and fits, and open_data on the file written.    *)
(* The profiles are the sawtooth lowered by 0, 1 and 3 (a filtered trace   *)
(* takes negative values after the Savitzky-Golay filter or when it is     *)
(* read from a file) and a flat trace.                                     *)
(***************************************************************************)
Shifts == { 0, 1, 3 }

SavedProfiles ==
    { [present |-> TRUE, distances |-> [i \in 1..13 |-> i - 1], xden |-> 1,
       raw_intensities |-> [i \in 1..13 |-> 3 - Sawtooth[i]], rden |-> 1,
       filtered |-> [i \in 1..13 |-> Sawtooth[i] - shift], fden |-> 1] :
      shift \in Shifts }
    \cup { [present |-> TRUE, distances |-> [i \in 1..13 |-> i - 1], xden |-> 1,
            raw_intensities |-> [i \in 1..13 |-> 0], rden |-> 1,
            filtered |-> [i \in 1..13 |-> 0], fden |-> 1] }

\* the samples where a selection starts or ends
RegionEnds == { 0, 5, 12 }

SavedRegions ==
    UNION { [1..n -> { r \in RegionEnds \X RegionEnds : r[1] <= r[2] }] :
            n \in 0..MaxRegions }

InitSave ==
    /\ TabInit
    /\ \E rd \in SavedProfiles, ints \in SavedRegions, detected \in BOOLEAN :
       \E found \in { detect_peaks(rd.filtered, DefaultPeakHeight, 5,
                                    TabProminence, TabWidth) } :
       \E pk \in { IF detected
                   THEN [present |-> TRUE, dtype |-> found.dtype, idx |-> found.peaks]
                   ELSE NoPeaks } :
       \E fitted \in BOOLEAN, converges \in [1..Len(pk.idx) -> BOOLEAN] :
       \E loop \in { FitEachPeak(rd.distances, rd.filtered, pk.idx, converges) } :
         call = [fn |-> "save_data", pc |-> "called",
                 results_data |-> rd, peaks |-> pk, integrations |-> ints,
                 mecozzi_fits |-> IF fitted /\ Len(pk.idx) > 0
                                  THEN [present |-> TRUE, fits |-> loop.fits]
                                  ELSE NoFits,
                 saved |-> NoResult, result |-> NoResult]

CallSaveData ==
    /\ call.fn = "save_data" /\ call.pc = "called"
    /\ call' = [call EXCEPT !.pc = "saved",
                            !.saved = save_data(call.results_data, call.peaks,
                                                call.integrations,
                                                call.mecozzi_fits)]
    /\ UNCHANGED tabvars

CallOpenData ==
    /\ call.fn = "save_data" /\ call.pc = "saved"
    /\ call.saved.outcome = "ok"
    /\ call' = [call EXCEPT !.pc = "opened",
                            !.result = open_data(call.saved.file)]
    /\ UNCHANGED tabvars

NextSave == CallSaveData \/ CallOpenData

SpecSave == InitSave /\ [][NextSave]_vars

(***************************************************************************)
(* Claims                                                                  *)
(***************************************************************************)
\* ---- apply_filters (C1, C2)
FiltersRan(outcome) == last.op = "apply_filters" /\ last.outcome = outcome

\* C1: whenever apply_filters runs to its end, the tab's peaks, integration
\* regions and Mecozzi fits are all empty afterwards, whatever was stored before.
C1_FiltersClearDerivedData ==
    FiltersRan("ok") =>
        /\ peaks = NoPeaks
        /\ integrations = << >>
        /\ mecozzi_fits = NoFits

\* apply_filters ran to its end, with the Savitzky-Golay filter applied, on a tab
\* that held peaks, a region and fits
C1_Witness ==
    /\ FiltersRan("ok")
    /\ results_data.fden = 70 * results_data.rden
    /\ Len(last.before[1].peaks.idx) > 0
    /\ Len(last.before[1].integrations) > 0
    /\ Len(last.before[1].mecozzi_fits.fits) > 0

\* C2: when the Savitzky-Golay filter rejects the window and polynomial order,
\* the filtered intensities are what they were before apply_filters ran, and the
\* peaks, integration regions and fits are neither cleared nor modified.
C2_FilterErrorKeepsState ==
    FiltersRan("error shown") =>
        /\ results_data.filtered = last.before[1].filtered
        /\ results_data.fden = last.before[1].fden
        /\ peaks = last.before[1].peaks
        /\ integrations = last.before[1].integrations
        /\ mecozzi_fits = last.before[1].mecozzi_fits

\* the filter failed on a tab that holds peaks, a region and fits
C2_Witness ==
    /\ FiltersRan("error shown")
    /\ last.err = "ValueError"
    /\ Len(peaks.idx) > 0
    /\ Len(integrations) > 0
    /\ Len(mecozzi_fits.fits) > 0

\* ---- fit_all_peaks (C3)
FitsRan == last.op = "fit_all_peaks" /\ last.outcome \in { "ok", "raised" }

FitIndexes == [j \in 1..Len(mecozzi_fits.fits) |-> mecozzi_fits.fits[j].peak_idx]

\* C3: fit_all_peaks attempts every stored peak: the stored fits are exactly the
\* peaks whose fit did not fail, in the order of the peak list, and the count it
\* reports is the number of stored fits.
C3_FitAllKeepsSucceeded ==
    FitsRan =>
        /\ Len(mecozzi_fits.fits) + Len(last.printed) = Len(peaks.idx)
        /\ FitIndexes = SelectSeq(peaks.idx, LAMBDA q : q \notin Range(last.printed))
        /\ last.outcome = "ok" =>
               last.status = Status("Fitted peaks", Len(mecozzi_fits.fits), 1)

\* of two peaks the fit of the first failed and the fit of the second is stored
C3_Witness ==
    /\ FitsRan
    /\ last.outcome = "ok"
    /\ Len(peaks.idx) = 2
    /\ last.printed = << peaks.idx[1] >>
    /\ FitIndexes = << peaks.idx[2] >>
    /\ last.status.arg = << 1, 1 >>

\* ---- fit_mecozzi_to_peak (C4)
FitReturned == call.fn = "fit_mecozzi_to_peak" /\ call.pc = "returned"

\* C4: every failure of fit_mecozzi_to_peak, a peak_idx outside the array
\* included, is the one error kind of a failed fit (ValueError).
C4_FailuresAreFitErrors ==
    FitReturned => (call.result.ok \/ call.result.err = "ValueError")

\* ---- extract_profile (C5, C6)
ExtractReturned == call.fn = "extract_profile" /\ call.pc = "returned"

TotalDist(points) ==
    IF Len(points) = 0 THEN 0 ELSE cumulative_dist(points)[Len(points)]

StrictlyIncreasing(s) == \A i \in 1..(Len(s) - 1) : s[i] < s[i + 1]

\* C5: extract_profile fails, and returns no profile, whenever the path has fewer
\* than 2 points or its total arc length is 0.
C5_DegeneratePathRejected ==
    (ExtractReturned /\ (Len(call.points) < 2 \/ TotalDist(call.points) = 0))
        => ~call.result.ok

\* C6: for every path of at least 2 points with positive total arc length,
\* extract_profile returns distances and intensities of the same length, the
\* distances starting at 0 and strictly increasing.
C6_ExtractionLengthInvariant ==
    (ExtractReturned /\ Len(call.points) >= 2 /\ TotalDist(call.points) > 0)
        => /\ call.result.ok
           /\ Len(call.result.distances) = Len(call.result.intensities)
           /\ call.result.distances[1] = 0
           /\ StrictlyIncreasing(call.result.distances)

\* ---- detect_peaks (C7, C8)
DetectReturned == call.fn = "detect_peaks" /\ call.pc = "returned"

\* C7: for every series and every distance >= 1, detect_peaks returns indices in
\* strictly ascending order, any two of them at least distance apart.
C7_PeaksAscendingAndApart ==
    (DetectReturned /\ call.distance >= 1) =>
        /\ call.result.ok
        /\ StrictlyIncreasing(call.result.peaks)
        /\ \A i, j \in 1..Len(call.result.peaks) :
               i < j => call.result.peaks[j] - call.result.peaks[i] >= call.distance

\* two peaks are returned for a distance of 2 or more
C7_Witness ==
    /\ DetectReturned
    /\ call.distance >= 2
    /\ call.result.ok
    /\ Len(call.result.peaks) >= 2

\* C8: detect_peaks returns no peak, and no error, for an empty series and for a
\* constant series, whatever the threshold, distance, prominence and width.
C8_FlatSeriesHasNoPeaks ==
    (DetectReturned /\ (Len(call.data) = 0 \/ IsConstant(call.data))) =>
        /\ call.result.ok
        /\ call.result.peaks = << >>

\* a constant series of several samples, with a distance that find_peaks rejects
C8_Witness ==
    /\ DetectReturned
    /\ Len(call.data) > 1
    /\ IsConstant(call.data)
    /\ call.distance = 0
    /\ call.result.ok

\* ---- manual_integration (C9)
IntegrateReturned == call.fn = "manual_integration" /\ call.pc = "returned"

\* C9: manual_integration gives the same result for (start_x, end_x) and for
\* (end_x, start_x), and its start_idx is at most its end_idx.
C9_ManualIntegrationSymmetric ==
    IntegrateReturned =>
        /\ call.result = manual_integration(call.x_data, call.y_data,
                                            call.end_x, call.start_x)
        /\ call.result.ok => call.result.start_idx <= call.result.end_idx

\* the x values are given from right to left and enclose a non-zero area
C9_Witness ==
    /\ IntegrateReturned
    /\ call.start_x > call.end_x
    /\ call.result.ok
    /\ call.result.start_idx < call.result.end_idx
    /\ call.result.area[1] # 0

\* ---- the regions of the tab (C10)
\* C10: every stored integration region has start_idx < end_idx, both inside
\* the profile.
C10_RegionsWellFormed ==
    \A k \in 1..Len(integrations) :
        /\ 0 <= integrations[k][1]
        /\ integrations[k][1] < integrations[k][2]
        /\ integrations[k][2] <= Len(results_data.filtered) - 1

\* ---- the area of a region (C11)
RegionReturned == call.fn = "region" /\ call.pc = "returned"

\* two areas << n, d >> are the same number
SameArea(p, q) == p[1] * q[2] = q[1] * p[2]

\* C11: for one region on one trace, the area previewed while dragging, the
\* area reported on release, the area of manual_integration, the area of
\* calculate_integration_area and the saved area are the same value.
C11_OneEndIndexConvention ==
    RegionReturned =>
        /\ SameArea(call.result.previewed, call.result.released)
        /\ SameArea(call.result.released, call.result.manual)
        /\ SameArea(call.result.manual, call.result.computed)
        /\ SameArea(call.result.computed, call.result.saved)

\* ---- degenerate traces (C12)
\* an empty trace, a trace of one sample or a constant trace
Degenerate(y) == Len(y) <= 1 \/ IsConstant(y)

\* C12: integration never raises on an empty, one-sample or constant trace:
\* manual_integration returns a (degenerate) result for it.
C12_DegenerateTraceNeverRaises ==
    (IntegrateReturned /\ Degenerate(call.y_data)) => call.result.ok

\* ---- save_data and open_data (C13)
SaveOpened == call.fn = "save_data" /\ call.pc = "opened"

\* C13: open_data of the record that save_data wrote gives back the same
\* distances, raw and filtered arrays, the same set of peak indices, the same
\* sequence of regions, and for every fit the same parameters and area.
C13_SaveOpenRoundTrip ==
    SaveOpened =>
        /\ call.result.results_data = call.results_data
        /\ Range(call.result.peaks.idx) = Range(call.peaks.idx)
        /\ call.result.integrations = call.integrations
        /\ Len(call.result.mecozzi_fits.fits) = Len(call.mecozzi_fits.fits)
        /\ \A k \in 1..Len(call.mecozzi_fits.fits) :
              /\ call.result.mecozzi_fits.fits[k].params
                     = call.mecozzi_fits.fits[k].params
              /\ call.result.mecozzi_fits.fits[k].area
                     = FitArea(call.mecozzi_fits.fits[k])

\* ---- the filter pipeline (C14)
\* what apply_filters, run with the settings f, stores on a tab that holds the
\* raw intensities of rd and no filtered trace
FilteredFrom(rd, f) ==
    apply_filters([rd EXCEPT !.filtered = << >>, !.fden = 1], NoPeaks, << >>,
                  NoFits, f.window_size, f.poly_order, f.smooth_sigma,
                  f.invert).results_data

\* C14: the filtered trace after apply_filters is a function of the raw
\* intensities and the four parameters only, whatever was filtered before, and
\* apply_filters never modifies the raw intensities.
C14_FiltersNotCumulative ==
    /\ last.op = "apply_filters" =>
           /\ results_data.raw_intensities = last.before[1].raw_intensities
           /\ results_data.rden = last.before[1].rden
    /\ FiltersRan("ok") =>
           /\ results_data.filtered
                  = FilteredFrom(results_data, last.before[1].settings).filtered
           /\ results_data.fden
                  = FilteredFrom(results_data, last.before[1].settings).fden

\* the Savitzky-Golay filter is applied a second time in a row, to a trace that
\* it changes: the filtered trace is the one it gave the first time
C14_Witness ==
    /\ FiltersRan("ok")
    /\ results_data.fden = 70 * results_data.rden
    /\ last.before[1].fden = 70 * results_data.rden
    /\ last.before[1].filtered = results_data.filtered
    /\ \E i \in 1..Len(results_data.filtered) :
           results_data.filtered[i] # 70 * (SeqMax(results_data.raw_intensities)
                                            - results_data.raw_intensities[i])

\* ---- calculate_area (C15)
AreaReturned == call.fn = "calculate_area" /\ call.pc = "returned"

\* twice the composite trapezoidal sum over the first n samples: the sum over
\* the first n - 1 samples and the last trapezoid
RECURSIVE TwiceTrapezoids(_, _, _)
TwiceTrapezoids(y, x, n) ==
    IF n < 2 THEN 0
    ELSE TwiceTrapezoids(y, x, n - 1) + (x[n] - x[n - 1]) * (y[n - 1] + y[n])

\* C15: calculate_area is the composite trapezoidal sum of
\* (x[i+1] - x[i]) * (y[i] + y[i+1]) / 2; it is 0 for arrays of length 0 or 1,
\* and its sign is the sign of the sum (values below zero are not clipped).
C15_TrapezoidRule ==
    AreaReturned =>
        /\ call.result[2] = 2
        /\ call.result[1]
               = TwiceTrapezoids(call.y_values, call.x_values, Len(call.y_values))
        /\ Len(call.y_values) < 2 => call.result[1] = 0

\* a trace with samples above and below zero whose area is negative
C15_Witness ==
    /\ AreaReturned
    /\ call.result[1] < 0
    /\ \E i \in 1..Len(call.y_values) : call.y_values[i] > 0
    /\ call.x_values = UnevenGrid(Len(call.y_values))

\* ---- mecozzi_a (C16)
MecozziReturned == call.fn = "mecozzi_a" /\ call.pc = "returned"

\* C16: for every parameter set inside the fit bounds and every x, mecozzi_a
\* takes the logarithm only where its argument is strictly positive, and never
\* divides by zero.
C16_CutoffIsDomainCheck ==
    MecozziReturned =>
        \A i \in 1..Len(call.result) :
            call.result[i].evaluated => call.result[i].log_of = "positive"

\* ---- the band of sample_band (C17)
\* C17: for an odd band_width, sample_band samples exactly band_width offsets
\* along the normal, -(band_width-1)/2 .. +(band_width-1)/2, symmetric about 0.
C17_BandCenteredOnPath ==
    (ExtractReturned /\ call.band_width > 0 /\ call.band_width % 2 = 1) =>
        /\ Cardinality(BandOffsets(call.band_width)) = call.band_width
        /\ BandOffsets(call.band_width)
               = (-((call.band_width - 1) \div 2))..((call.band_width - 1) \div 2)

\* ---- the number of samples (C18)
\* C18: for a path of total length L, extract produces
\* N = min(1000, max(500, round(L/2))) samples, L/2 rounded to the nearest
\* integer.
C18_SampleCountRounded ==
    (ExtractReturned /\ call.result.ok) =>
        Len(call.result.distances)
            = Min2(1000, Max2(500, RoundHalfEven(TotalDist(call.points), 2)))

\* ---- the fit window (C19)
\* C19: for every trace and every peak_idx in [0, len-1], the window that
\* fit_mecozzi_to_peak fits on is the samples max(0, peak_idx-50) ..
\* min(len-1, peak_idx+50), both ends included: the curve of a fit that
\* succeeded spans from the x of the first of them to the x of the last.
C19_FitWindowInclusive ==
    (/\ FitReturned /\ call.result.ok
     /\ 0 <= call.peak_idx /\ call.peak_idx <= Len(call.y_data) - 1) =>
        call.result.fit.x_fit
            = << At(call.x_data, Max2(0, call.peak_idx - FitWindow)),
                 At(call.x_data, Min2(Len(call.x_data) - 1,
                                      call.peak_idx + FitWindow)) >>

\* ---- ties in the distance suppression (C20)
\* the local maxima of the trace that reach its highest value, in index order
HighestMaxima(data) ==
    SelectSeq(local_maxima_1d(data), LAMBDA q : At(data, q) = SeqMax(data))

\* C20: when the first two of the highest local maxima (equal in value, no
\* candidate above them) lie closer together than distance, detect_peaks keeps
\* the one with the lower index and suppresses the other.
C20_TieKeepsLowerIndex ==
    (/\ DetectReturned /\ call.result.ok
     /\ call.prominence = 0 /\ call.width = 0
     /\ Len(HighestMaxima(call.data)) >= 2
     /\ HighestMaxima(call.data)[2] - HighestMaxima(call.data)[1] < call.distance) =>
        /\ \E i \in 1..Len(call.result.peaks) :
               call.result.peaks[i] = HighestMaxima(call.data)[1]
        /\ \A i \in 1..Len(call.result.peaks) :
               call.result.peaks[i] # HighestMaxima(call.data)[2]

\* ---- the Savitzky-Golay step (C21)
SavgolReturned == call.fn = "apply_savitzky_golay" /\ call.pc = "returned"

\* window_size forced to odd
OddWindow(window_size) ==
    IF window_size % 2 = 0 THEN window_size + 1 ELSE window_size

\* C21: with the window forced to odd, the Savitzky-Golay step fails whenever
\* poly_order >= window_size; otherwise it is the identity when
\* len(data) <= window_size and the smoothing when len(data) > window_size.
C21_SavgolCases ==
    SavgolReturned =>
        LET w == OddWindow(call.window_size)
        IN  IF call.poly_order >= w THEN ~call.result.ok
            ELSE IF Len(call.data) <= w
            THEN call.result = [ok |-> TRUE, y |-> call.data, scale |-> 1]
            ELSE /\ call.result.ok
                 /\ call.result.y = savgol_filter(call.data, w, call.poly_order).y

\* ---- the bounds of an automatic integration (C22, C29)
AutoReturned == call.fn = "auto_integrate_peaks" /\ call.pc = "returned"

\* the sample i lies above the threshold of the peak p
AboveThreshold(i, p) ==
    100 * At(call.intensities, i)
        > At(call.intensities, p) * (100 - call.width_percent)

\* the samples i and j differ by less than sensitivity * intensities[p]
NearlyEqual(i, j, p) ==
    call.sensitivity[2] * Abs(At(call.intensities, i) - At(call.intensities, j))
        < call.sensitivity[1] * At(call.intensities, p)

\* the position reached from the peak p going left: the last sample at or left
\* of from that is sample 0 or fails the test
LeftOf(from, Fails(_)) ==
    CHOOSE i \in 0..from :
        /\ i = 0 \/ Fails(i)
        /\ \A j \in (i + 1)..from : ~(j = 0 \/ Fails(j))

\* the same going right, up to the last sample
RightOf(from, Fails(_)) ==
    LET last_idx == Len(call.intensities) - 1
    IN  CHOOSE i \in from..last_idx :
            /\ i = last_idx \/ Fails(i)
            /\ \A j \in from..(i - 1) : ~(j = last_idx \/ Fails(j))

ExpectedStart(p) ==
    LET walked == LeftOf(p, LAMBDA i : ~AboveThreshold(i, p))
        refined == LeftOf(walked, LAMBDA i : ~NearlyEqual(i, i - 1, p))
    IN  IF refined - Padding < 0 THEN 0 ELSE refined - Padding

ExpectedEnd(p) ==
    LET last_idx == Len(call.intensities) - 1
        walked == RightOf(p, LAMBDA i : ~AboveThreshold(i, p))
        refined == RightOf(walked, LAMBDA i : ~NearlyEqual(i, i + 1, p))
    IN  IF refined + Padding > last_idx THEN last_idx ELSE refined + Padding

\* C22: for every non-empty trace and every peak index inside it,
\* find_integration_bounds returns (start, end) with
\* 0 <= start <= peak_idx <= end <= len-1, each bound the position reached by
\* walking away from the peak while the intensity is above the threshold, then
\* while consecutive samples are nearly equal, then moved 3 samples outward and
\* clamped to the trace.
C22_AutoBounds ==
    AutoReturned =>
        \A k \in 1..Len(call.peak_indices) :
            LET p == call.peak_indices[k]
                b == call.result.bounds[k]
            IN  /\ 0 <= b[1] /\ b[1] <= p
                /\ p <= b[2] /\ b[2] <= Len(call.intensities) - 1
                /\ b[1] = ExpectedStart(p)
                /\ b[2] = ExpectedEnd(p)

\* a peak whose left bound was walked, refined and moved 3 samples without
\* reaching the start of the trace, and whose right bound was clamped
C22_Witness ==
    /\ AutoReturned
    /\ \E k \in 1..Len(call.peak_indices) :
         LET p == call.peak_indices[k]
             b == call.result.bounds[k]
         IN  /\ AboveThreshold(p, p)
             /\ 0 < b[1] /\ b[1] < p - Padding
             /\ b[2] = Len(call.intensities) - 1
             /\ b[2] < p + Padding

\* C29: auto_integrate_peaks returns, in order, exactly the pairs that
\* find_integration_bounds returns for each peak index.
C29_AutoImplementationsAgree ==
    AutoReturned => call.result.integrations = call.result.bounds

\* two peaks with different regions
C29_Witness ==
    /\ AutoReturned
    /\ Len(call.peak_indices) = 2
    /\ Len(call.result.integrations) = 2
    /\ call.result.integrations[1] # call.result.integrations[2]

\* ---- the area of manual_integration (C23)
\* the index of the distance nearest to x, the lowest index among equals
NearestIndex(x_data, x) ==
    CHOOSE i \in 0..(Len(x_data) - 1) :
        /\ \A k \in 0..(Len(x_data) - 1) :
               Abs(At(x_data, i) - x) <= Abs(At(x_data, k) - x)
        /\ \A k \in 0..(i - 1) : Abs(At(x_data, k) - x) > Abs(At(x_data, i) - x)

\* the span between the nearest indices, the lower one first
ExpectedSpan ==
    LET i1 == NearestIndex(call.x_data, call.start_x)
        i2 == NearestIndex(call.x_data, call.end_x)
    IN  IF i1 <= i2 THEN << i1, i2 >> ELSE << i2, i1 >>

\* the denominator of the baseline: the number of steps of the span
SpanSteps == IF ExpectedSpan[2] > ExpectedSpan[1]
             THEN ExpectedSpan[2] - ExpectedSpan[1] ELSE 1

\* intensities - baseline over the span, times SpanSteps, for the straight line
\* from intensities[start_idx] to intensities[end_idx]
Subtracted ==
    LET s == ExpectedSpan[1]
        e == ExpectedSpan[2]
    IN  [k \in 1..(e - s + 1) |->
            At(call.y_data, s + k - 1) * SpanSteps
                - (At(call.y_data, s) * SpanSteps
                   + (k - 1) * (At(call.y_data, e) - At(call.y_data, s)))]

\* the distances of the span
SpanDistances ==
    [k \in 1..(ExpectedSpan[2] - ExpectedSpan[1] + 1) |->
        At(call.x_data, ExpectedSpan[1] + k - 1)]

\* the intensities of the span rise or fall by the same amount at every step
LinearOverSpan ==
    \A i \in (ExpectedSpan[1] + 1)..(ExpectedSpan[2] - 1) :
        At(call.y_data, i + 1) - At(call.y_data, i)
            = At(call.y_data, i) - At(call.y_data, i - 1)

\* C23: manual_integration maps start_x and end_x to the indices of the nearest
\* distances (lowest index on a tie) and returns the trapezoidal area of
\* intensities - baseline over the inclusive span, the baseline the straight
\* line between the two end samples: the subtracted curve is 0 at both ends,
\* the area is 0 for a linear (or all-zero) trace, 10 for y = [0,10,0] on
\* x = [0,1,2], and negative when the trace lies below the baseline.
C23_ManualIntegrationArea ==
    (IntegrateReturned /\ Len(call.x_data) > 0) =>
        /\ call.result.ok
        /\ << call.result.start_idx, call.result.end_idx >> = ExpectedSpan
        /\ SameArea(call.result.area,
                    << TwiceTrapezoids(Subtracted, SpanDistances, Len(Subtracted)),
                       2 * SpanSteps >>)
        /\ Subtracted[1] = 0 /\ Subtracted[Len(Subtracted)] = 0
        /\ LinearOverSpan => call.result.area[1] = 0
        /\ (/\ [x_data |-> call.x_data, y_data |-> call.y_data] = PeakExample
            /\ ExpectedSpan = << 0, 2 >>) => SameArea(call.result.area, << 10, 1 >>)
        /\ (/\ Len(Subtracted) > 2
            /\ \A k \in 2..(Len(Subtracted) - 1) : Subtracted[k] < 0)
               => call.result.area[1] < 0

\* the example trace integrated over its whole span
C23_Witness ==
    /\ IntegrateReturned
    /\ [x_data |-> call.x_data, y_data |-> call.y_data] = PeakExample
    /\ call.result.ok
    /\ call.result.start_idx = 0 /\ call.result.end_idx = 2
    /\ call.start_x > call.end_x

\* ---- pairs of points with zero separation (C24)
BandReturned == call.fn = "sample_band" /\ call.pc = "returned"

\* C24: the list that sample_band builds has one entry for every consecutive
\* pair of points, and returns an array of that many values resampled to the
\* number of points; a pair with zero separation contributes the intensity 0.
C24_DegeneratePairCountsAsZero ==
    (BandReturned /\ Len(call.points) >= 2) =>
        /\ Len(call.result.appended) = Len(call.points) - 1
        /\ Len(call.result.intensities) = Len(call.points)
        /\ \A i \in 1..(Len(call.points) - 1) :
               call.points[i] = call.points[i + 1]
                   => call.result.appended[i][1] = 0

\* ---- the tabs of the application (C25)
ChromatogramTabs(ws) ==
    { ws[k] : k \in { j \in 1..Len(ws) : ws[j].kind = "ChromatogramTab" } }

\* C25: the chromatogram tabs registered in app.tabs are exactly the
\* chromatogram tabs shown in the notebook, and close_tab(i) removes precisely
\* the tab shown at position i, or nothing when that is the Image Analysis tab.
C25_TabsMatchNotebook ==
    /\ ChromatogramTabs(app.tabs) = ChromatogramTabs(app.notebook)
    /\ app.last.op = "close_tab" =>
           app.notebook
               = IF app.last.before[app.last.tab_idx + 1] = app.image_tab
                 THEN app.last.before
                 ELSE Forget(app.last.before, app.last.tab_idx)
    /\ \E k \in 1..Len(app.notebook) : app.notebook[k] = app.image_tab

\* ---- the lines of the image tab (C30)
\* C30: current_line_id is None exactly when there are no profile lines;
\* otherwise it is the id of an existing line, and that line is the only
\* active one.
C30_OneActiveLine ==
    /\ image_tab.current_line_id = NoLine <=> Len(image_tab.profile_lines) = 0
    /\ image_tab.current_line_id # NoLine => HasLine(image_tab, image_tab.current_line_id)
    /\ \A k \in 1..Len(image_tab.profile_lines) :
           image_tab.profile_lines[k].active
               <=> image_tab.profile_lines[k].id = image_tab.current_line_id

\* the active line was deleted and the oldest of the two lines left became the
\* active one
C30_Witness ==
    /\ image_tab.last.op = "delete_profile_line"
    /\ Len(image_tab.profile_lines) = 2
    /\ image_tab.current_line_id = image_tab.profile_lines[1].id
    /\ Len(image_tab.profile_lines[1].points) > 0

\* ---- fits and the peaks they were seeded from (C26)
\* C26: every stored fit that carries a peak_idx refers to a peak index that is
\* in the stored peak list.
C26_FitsReferToStoredPeaks ==
    \A k \in 1..Len(mecozzi_fits.fits) :
        "peak_idx" \in DOMAIN mecozzi_fits.fits[k]
            => /\ peaks.present
               /\ mecozzi_fits.fits[k].peak_idx \in Range(peaks.idx)

\* ---- what the display shows (C27)
\* C27: when a handler has redrawn the chromatogram, the redraw shows the peaks,
\* regions and fits that the tab stores when the handler ends; in particular,
\* the last redraw of apply_filters shows no peaks, regions or fits.
C27_DisplayMatchesState ==
    last.drawn # << >> =>
        last.drawn = Drawn(results_data, peaks, integrations, mecozzi_fits)

\* ---- the start of the optimiser (C28)
\* C28: for every trace of at least 2 samples and every peak_idx inside it, the
\* optimiser is started from a feasible point (the initial guess inside the
\* bounds, every lower bound below its upper bound): a fit whose optimiser
\* converges is not rejected.
C28_FitStartsFeasible ==
    (/\ FitReturned /\ call.converges
     /\ Len(call.y_data) >= 2
     /\ 0 <= call.peak_idx /\ call.peak_idx <= Len(call.y_data) - 1) =>
        call.result.ok

====
